---- MODULE Spec2Model ----
(***************************************************************************)
(* Roydon level crossing tracker.                                          *)
(*                                                                         *)
(* darwin_pushport.py: a feed listener thread (on_message ->               *)
(* process_schedules -> process_train_status) and an HTTP query thread     *)
(* (get_realtime_trains) share the dictionary trains_cache under           *)
(* cache_lock.                                                             *)
(*                                                                         *)
(* s3_bootstrap.py: S3TimetableBootstrap.parse_timetable walks the         *)
(* journeys of a timetable twice, for the trains listed at the             *)
(* observation point and for those inferred from the route.  It is a       *)
(* program of its own: load_initial_trains in darwin_pushport.py does not  *)
(* call it.                                                                *)
(*                                                                         *)
(* darwin_pushport.py: connect_to_darwin, the thread that keeps the STOMP  *)
(* connection up, and the callbacks on_connected and on_disconnected that  *)
(* stomp.py runs in the thread that also runs on_message.                  *)
(*                                                                         *)
(* Encodings.                                                              *)
(*  - Instants are integers, in ticks of 1/TicksPerMinute minute since     *)
(*    midnight of day 0, so that datetime.now() can fall on a minute       *)
(*    boundary or strictly inside a minute.                                *)
(*  - A time string is the tuple of its ':'-separated fields ("14:01" is   *)
(*    <<14, 1>>, "14:01:30" is <<14, 1, 30>>, "" is <<>>); a field that    *)
(*    int() rejects is NaN.  Absent is Python's None (a missing XML        *)
(*    attribute).                                                          *)
(*  - datetime.isoformat() is the tuple <<day, hour, minute, subtick>>,    *)
(*    compared lexicographically as the strings are; None is IsoNone.      *)
(*  - A Python dict is the sequence of its values in insertion order.      *)
(***************************************************************************)
EXTENDS Integers, Sequences, FiniteSets, TLC

VARIABLES
    now,           \* the wall clock, datetime.now()
    trains_cache,  \* the global dict rid -> train, in insertion order
    lpc,           \* listener thread: where it is in on_message
    body,          \* listener: the body of the STOMP frame on_message was given
    frame,         \* listener: the decoded document being processed
    idx,           \* listener: index of the element being processed
    pending,       \* listener: the train built by process_schedules, before the lock
    locq,          \* listener: the matching Location elements of a TS still to apply
    outcome,       \* listener: what its last step did (cleared when on_message returns)
    qpc,           \* query thread: where it is in get_realtime_trains
    qnow,          \* query: its local now
    to_remove,     \* query: its local to_remove list
    response,      \* query: the JSON body being returned
    last_snapshot_load, \* the global set by load_initial_trains
    program,       \* which of the two programs runs: "pushport" or "bootstrap"
    bpc,           \* bootstrap: where it is in parse_timetable
    journeys,      \* bootstrap: the Journey elements of the timetable
    bidx,          \* bootstrap: index of the journey being processed
    start,         \* bootstrap: parse_timetable's local now
    self_trains,   \* bootstrap: self.trains
    passing_trains, \* bootstrap: find_passing_trains_by_inference's local list
    calc,          \* a computation on its own: its arguments and its result
    creds,         \* DARWIN_USERNAME and DARWIN_PASSWORD are both set
    darwin_connected, \* the global set by on_connected and on_disconnected
    cpc,           \* connect thread: where it is in connect_to_darwin
    link,          \* the STOMP session with the broker: "down" or "up" (subscribed)
    sleep_for,     \* connect thread: the argument of the time.sleep it is in, in seconds
    attempt,       \* the headers of the last conn.connect and conn.subscribe
    failures,      \* history: how many attempts have raised so far (saturating)
    down_cause,    \* history: why the session is down
    cache_lock,    \* the thread that holds cache_lock, "free" if none
    endpoint       \* the thread serving /health or /api/status: its position and counts

vars == <<now, trains_cache, lpc, body, frame, idx, pending, locq, outcome,
          qpc, qnow, to_remove, response, last_snapshot_load,
          program, bpc, journeys, bidx, start, self_trains, passing_trains, calc,
          creds, darwin_connected, cpc, link, sleep_for, attempt, failures, down_cause,
          cache_lock, endpoint>>

---------------------------------------------------------------------------
(* Bounds and program constants *)

TickRefinement == 1
MaxSubTicks == 2

\* a tick is at most half a minute, so that the midpoint of two whole minutes
\* is an instant
TicksPerMinute == 2 * TickRefinement

MinutesPerDay == 1440
PastGraceMinutes == 5
HorizonMinutes == 90
RefreshMinutes == 30

TicksPerDay == MinutesPerDay * TicksPerMinute
GraceTicks == PastGraceMinutes * TicksPerMinute
HorizonTicks == HorizonMinutes * TicksPerMinute
RefreshTicks == RefreshMinutes * TicksPerMinute

\* The process starts one tick after 14:00.
StartInstant == (14 * 60) * TicksPerMinute + 1

\* The bootstrap starts at 13:30 sharp.
BootInstant == (13 * 60 + 30) * TicksPerMinute

\* The instants at which the threads read the clock: a few ticks from the
\* start, and the same a grace window later.
ClockInstants ==
    { StartInstant + a + b * GraceTicks : a \in 0..MaxSubTicks, b \in {0, 1} }

BootClockInstants ==
    { BootInstant + a + b * GraceTicks : a \in 0..MaxSubTicks, b \in {0, 1} }

---------------------------------------------------------------------------
(* Strings, None and truthiness *)

NaN == -1
Absent == << -2 >>
EmptyStr == << >>

ROYDON_TIPLOC == "ROYDON"

Truthy(s) == s # Absent /\ s # EmptyStr

\* Python's `a or b`
PyOr(a, b) == IF Truthy(a) THEN a ELSE b

NoTime == -1
IsoNone == << >>

isoformat(t) ==
    << t \div TicksPerDay,
       (t % TicksPerDay) \div (60 * TicksPerMinute),
       ((t % TicksPerDay) \div TicksPerMinute) % 60,
       t % TicksPerMinute >>

fromisoformat(s) ==
    s[1] * TicksPerDay + (s[2] * 60 + s[3]) * TicksPerMinute + s[4]

\* string comparison of two isoformat strings: s < t
IsoLess(s, t) ==
    \E k \in 1..4 : s[k] < t[k] /\ \A j \in 1..(k - 1) : s[j] = t[j]

\* now.replace(hour=hours, minute=minutes, second=0, microsecond=0)
ReplaceHM(t, hours, minutes) ==
    (t \div TicksPerDay) * TicksPerDay + (hours * 60 + minutes) * TicksPerMinute

\* the part of parse_time that can raise: split, int(), replace
ValidHM(time_str) ==
    /\ Len(time_str) >= 2
    /\ time_str[1] # NaN /\ time_str[2] # NaN
    /\ time_str[1] \in 0..23 /\ time_str[2] \in 0..59

parse_time(time_str, t) ==
    IF ~Truthy(time_str) THEN NoTime
    ELSE IF ~ValidHM(time_str) THEN NoTime
    ELSE LET train_time == ReplaceHM(t, time_str[1], time_str[2])
         IN IF train_time < t THEN train_time + TicksPerDay ELSE train_time

---------------------------------------------------------------------------
(* XML documents of the real-time feed *)

PyNone == "None"

Times5 == [pta |-> Absent, ptd |-> Absent, wtp |-> Absent, wta |-> Absent, wtd |-> Absent]

\* a location element of a schedule (OR, IP, PP, DT ...) or of a TS (Location)
XmlLoc(tag, tpl, t, et, at) ==
    [tag |-> tag, tpl |-> tpl, pta |-> t.pta, ptd |-> t.ptd, wtp |-> t.wtp,
     wta |-> t.wta, wtd |-> t.wtd, et |-> et, at |-> at, plat |-> Absent]

XmlElem(tag, rid, locs) ==
    [tag |-> tag, rid |-> rid, uid |-> "U", ssd |-> 0, toc |-> "LE", locs |-> locs]

TA == <<14, 1>>
TB == <<14, 2>>
TFar == <<15, 36>>
TBad == <<NaN, 0>>

\* what the observation point's location can carry
RoydonTimes ==
    << [Times5 EXCEPT !.pta = TB, !.ptd = TA, !.wtp = TB, !.wta = TB, !.wtd = TB],
       [Times5 EXCEPT !.pta = TA, !.wtp = TB, !.wta = TB],
       [Times5 EXCEPT !.wtp = TA, !.wta = TB, !.wtd = TB],
       [Times5 EXCEPT !.wta = TB, !.wtd = TA],
       [Times5 EXCEPT !.wta = TA],
       Times5,
       [Times5 EXCEPT !.wtp = TFar],
       [Times5 EXCEPT !.wtp = TBad],
       [Times5 EXCEPT !.pta = EmptyStr, !.wtp = TA, !.wtd = TB] >>

ScheduleElem(rid, t) ==
    XmlElem("schedule", rid,
            << XmlLoc("OR", "LIVST", [Times5 EXCEPT !.ptd = TA], Absent, Absent),
               XmlLoc("PP", ROYDON_TIPLOC, t, Absent, Absent),
               XmlLoc("DT", "CAMBDGE", [Times5 EXCEPT !.pta = TFar], Absent, Absent) >>)

\* a schedule that does not call at the observation point
ElsewhereElem(rid) ==
    XmlElem("schedule", rid,
            << XmlLoc("OR", "LIVST", [Times5 EXCEPT !.ptd = TA], Absent, Absent),
               XmlLoc("DT", "STFD", [Times5 EXCEPT !.pta = TB], Absent, Absent) >>)

StatusElem(rid, et, at) ==
    XmlElem("TS", rid,
            << XmlLoc("Location", "BROXBRN", Times5, TA, Absent),
               XmlLoc("Location", ROYDON_TIPLOC, Times5, et, at) >>)

StatusPairs == { <<TA, Absent>>, <<TB, Absent>>, <<Absent, TB>>, <<TA, TB>>, <<Absent, Absent>> }

\* the decoded documents the feed delivers
Documents ==
    { << ScheduleElem("R1", RoydonTimes[k]) >> : k \in 1..Len(RoydonTimes) }
    \cup { << ScheduleElem("R1", RoydonTimes[3]), ScheduleElem("R3", Times5),
              ScheduleElem("R2", RoydonTimes[3]) >>,
           << ElsewhereElem("R2") >>,
           << ScheduleElem("", RoydonTimes[3]), ScheduleElem("R2", RoydonTimes[3]) >>,
           << ScheduleElem("R2", RoydonTimes[3]), StatusElem("R2", TB, Absent) >>,
           << StatusElem("R2", TB, Absent), ScheduleElem("R2", RoydonTimes[3]) >> }
    \cup { << StatusElem("R1", p[1], p[2]) >> : p \in StatusPairs }

---------------------------------------------------------------------------
(* STOMP frames and on_message's decoding *)

\* A frame body: absent (None), a str with or without U+FFFD, or bytes that
\* are not gzip, gzip of bytes that are not UTF-8, gzip of text that is not
\* well-formed XML, or gzip of a document.  text is what the body holds up to
\* the point where decoding fails, or all of it.
Body(kind, text) == [kind |-> kind, text |-> text]

NoBody == Body("none", << >>)

\* the result of ET.fromstring on nothing
NoRoot == << >>

DroppedKinds ==
    {"absent", "str_replacement", "str", "not_gzip", "gzip_not_utf8", "gzip_malformed"}

\* the frames the broker delivers
Bodies ==
    { Body("gzip_xml", doc) : doc \in Documents }
    \cup { Body(kind, << ScheduleElem("R1", RoydonTimes[3]) >>) : kind \in DroppedKinds }

\* mutant: whatever was read before the failure is processed
RootLenient(b) == b.text

\* lines 111-126 of on_message: the root handed to process_schedules and
\* process_train_status, NoRoot when the method returns or raises before
Root(b) ==
    IF b.kind = "absent" THEN NoRoot
    ELSE IF b.kind = "str_replacement" THEN NoRoot
    ELSE IF b.kind = "str" THEN NoRoot
    ELSE IF b.kind = "not_gzip" THEN NoRoot
    ELSE IF b.kind = "gzip_not_utf8" THEN NoRoot
    ELSE IF b.kind = "gzip_malformed" THEN NoRoot
    ELSE b.text

---------------------------------------------------------------------------
(* The dict trains_cache *)

Keys(cache) == { cache[i].rid : i \in 1..Len(cache) }

HasKey(cache, rid) == rid \in Keys(cache)

KeyIndex(cache, rid) == CHOOSE i \in 1..Len(cache) : cache[i].rid = rid

Get(cache, rid) == cache[KeyIndex(cache, rid)]

\* mutant: the dict is bound anew to the one entry
PutAlone(cache, train) == << train >>

\* cache[rid] = train: in place for an existing key, appended for a new one
Put(cache, train) ==
    IF HasKey(cache, train.rid)
    THEN [cache EXCEPT ![KeyIndex(cache, train.rid)] = train]
    ELSE Append(cache, train)

---------------------------------------------------------------------------
(* process_schedules *)

RidFalsy(rid) == rid = "" \/ rid = PyNone

\* 'schedule' in tag.lower() and tag.endswith('schedule')
IsScheduleTag(tag) == tag = "schedule"

\* 'TS' in tag
IsStatusTag(tag) == tag = "TS"

\* the tpl attributes seen by `for loc in schedule.iter()`, in document order;
\* the schedule element itself has none
RECURSIVE FirstTpl(_, _)
FirstTpl(locs, origin) ==
    IF locs = << >> THEN origin
    ELSE FirstTpl(Tail(locs),
                  IF origin = PyNone /\ Head(locs).tpl # "" THEN Head(locs).tpl ELSE origin)

RECURSIVE LastTpl(_, _)
LastTpl(locs, destination) ==
    IF locs = << >> THEN destination
    ELSE LastTpl(Tail(locs), IF Head(locs).tpl # "" THEN Head(locs).tpl ELSE destination)

\* index of the location kept in roydon_location (the last match), 0 for None
RoydonIndex(locs) ==
    LET hits == { i \in 1..Len(locs) : locs[i].tpl = ROYDON_TIPLOC }
    IN IF hits = {} THEN 0 ELSE CHOOSE i \in hits : \A j \in hits : j <= i

\* mutant: working departure and arrival before the working pass
SelectTimeWorkingFirst(loc) ==
    IF Truthy(loc.pta) \/ Truthy(loc.ptd)
    THEN [type |-> "stopping", time |-> PyOr(loc.ptd, loc.pta)]
    ELSE IF Truthy(PyOr(loc.wtd, loc.wta))
    THEN [type |-> "passing", time |-> PyOr(loc.wtd, loc.wta)]
    ELSE [type |-> "passing", time |-> loc.wtp]

\* the precedence of lines 174-182: public, then working pass, then working
SelectTime(loc) ==
    IF Truthy(loc.pta) \/ Truthy(loc.ptd)
    THEN [type |-> "stopping", time |-> PyOr(loc.ptd, loc.pta)]
    ELSE IF Truthy(loc.wtp)
    THEN [type |-> "passing", time |-> loc.wtp]
    ELSE [type |-> "passing", time |-> PyOr(loc.wtd, loc.wta)]

\* mutant: without the test of line 184
SchedulePassesUntimed(el) ==
    /\ IsScheduleTag(el.tag)
    /\ ~RidFalsy(el.rid)
    /\ RoydonIndex(el.locs) # 0

\* a schedule element that reaches parse_time at line 185
SchedulePasses(el) ==
    /\ IsScheduleTag(el.tag)
    /\ ~RidFalsy(el.rid)
    /\ RoydonIndex(el.locs) # 0
    /\ Truthy(SelectTime(el.locs[RoydonIndex(el.locs)]).time)

\* mutant: the estimate starts as the scheduled time
NewTrainOnTime(el, t) ==
    LET sel == SelectTime(el.locs[RoydonIndex(el.locs)])
        train_time == parse_time(sel.time, t)
    IN [rid |-> el.rid, uid |-> el.uid, ssd |-> el.ssd, type |-> sel.type,
        time |-> sel.time,
        parsed_time |-> IF train_time # NoTime THEN isoformat(train_time) ELSE IsoNone,
        destination |-> LastTpl(el.locs, PyNone),
        origin |-> FirstTpl(el.locs, PyNone),
        toc |-> el.toc, eta |-> sel.time, delayed |-> FALSE, actual |-> FALSE]

\* the dict literal of lines 188-200, with parse_time read at instant t
NewTrain(el, t) ==
    LET sel == SelectTime(el.locs[RoydonIndex(el.locs)])
        train_time == parse_time(sel.time, t)
    IN [rid |-> el.rid, uid |-> el.uid, ssd |-> el.ssd, type |-> sel.type,
        time |-> sel.time,
        parsed_time |-> IF train_time # NoTime THEN isoformat(train_time) ELSE IsoNone,
        destination |-> LastTpl(el.locs, PyNone),
        origin |-> FirstTpl(el.locs, PyNone),
        toc |-> el.toc, eta |-> Absent, delayed |-> FALSE, actual |-> FALSE]

\* mutant: the loop ends at the first schedule element that is skipped
NextScheduleUntilSkip(doc, i) ==
    LET hits == { j \in i..Len(doc) : \A k \in i..j : SchedulePasses(doc[k]) }
    IN IF hits = {} THEN Len(doc) + 1 ELSE CHOOSE j \in hits : \A k \in hits : j <= k

\* first schedule element from index i on that reaches parse_time,
\* Len(doc) + 1 if none
NextSchedule(doc, i) ==
    LET hits == { j \in i..Len(doc) : SchedulePasses(doc[j]) }
    IN IF hits = {} THEN Len(doc) + 1 ELSE CHOOSE j \in hits : \A k \in hits : j <= k

---------------------------------------------------------------------------
(* process_train_status *)

\* a TS element that reaches the membership test of line 214 with a rid
StatusPasses(el) == IsStatusTag(el.tag) /\ ~RidFalsy(el.rid)

\* first TS element from index i on that reaches the membership test,
\* Len(doc) + 1 if none
NextStatus(doc, i) ==
    LET hits == { j \in i..Len(doc) : StatusPasses(doc[j]) }
    IN IF hits = {} THEN Len(doc) + 1 ELSE CHOOSE j \in hits : \A k \in hits : j <= k

\* the Location children matching the observation point, in document order
MatchingLocations(el) ==
    SelectSeq(el.locs, LAMBDA loc : loc.tag = "Location" /\ loc.tpl = ROYDON_TIPLOC)

\* mutant: the write creates the entry of a run that is not cached
ApplyStatusUpsert(cache, rid, loc) ==
    LET train == IF HasKey(cache, rid) THEN Get(cache, rid)
                 ELSE [rid |-> rid, uid |-> PyNone, ssd |-> -1, type |-> PyNone,
                       time |-> Absent, parsed_time |-> IsoNone, destination |-> PyNone,
                       origin |-> PyNone, toc |-> PyNone, eta |-> Absent,
                       delayed |-> FALSE, actual |-> FALSE]
    IN IF Truthy(loc.at)
       THEN Put(cache, [train EXCEPT !.eta = loc.at, !.actual = TRUE])
       ELSE IF Truthy(loc.et)
       THEN Put(cache, [train EXCEPT !.eta = loc.et, !.delayed = (loc.et # train.time)])
       ELSE cache

\* mutant: the estimated time is tested before the actual time
ApplyStatusEstimateFirst(cache, rid, loc) ==
    IF ~HasKey(cache, rid) THEN cache
    ELSE LET train == Get(cache, rid)
         IN IF Truthy(loc.et)
            THEN Put(cache, [train EXCEPT !.eta = loc.et, !.delayed = (loc.et # train.time)])
            ELSE IF Truthy(loc.at)
            THEN Put(cache, [train EXCEPT !.eta = loc.at, !.actual = TRUE])
            ELSE cache

\* mutant: delayed, once set, stays set
ApplyStatusStickyDelayed(cache, rid, loc) ==
    IF ~HasKey(cache, rid) THEN cache
    ELSE LET train == Get(cache, rid)
         IN IF Truthy(loc.at)
            THEN Put(cache, [train EXCEPT !.eta = loc.at, !.actual = TRUE])
            ELSE IF Truthy(loc.et)
            THEN Put(cache, [train EXCEPT !.eta = loc.et,
                                          !.delayed = (train.delayed \/ loc.et # train.time)])
            ELSE cache

\* lines 223-232, under the lock
ApplyStatus(cache, rid, loc) ==
    IF ~HasKey(cache, rid) THEN cache
    ELSE LET train == Get(cache, rid)
         IN IF Truthy(loc.at)
            THEN Put(cache, [train EXCEPT !.eta = loc.at, !.actual = TRUE])
            ELSE IF Truthy(loc.et)
            THEN Put(cache, [train EXCEPT !.eta = loc.et, !.delayed = (loc.et # train.time)])
            ELSE cache

StatusOutcome(cache, rid, loc) ==
    IF ~HasKey(cache, rid) THEN "status_gone"
    ELSE IF Truthy(loc.at) THEN "status_at"
    ELSE IF Truthy(loc.et) THEN "status_et"
    ELSE "status_noop"

---------------------------------------------------------------------------
(* get_realtime_trains *)

HasInstant(train) == train.parsed_time # IsoNone

\* mutant: the clean-up compares with the width of the forward horizon
EvictableWrongCutoff(train, t) ==
    HasInstant(train) /\ fromisoformat(train.parsed_time) < t - HorizonTicks

\* lines 323-326: the entries the clean-up loop puts in to_remove
Evictable(train, t) ==
    HasInstant(train) /\ fromisoformat(train.parsed_time) < t - GraceTicks

RECURSIVE RidsOf(_)
RidsOf(trains) ==
    IF trains = << >> THEN << >> ELSE << Head(trains).rid >> \o RidsOf(Tail(trains))

ToRemove(cache, t) == RidsOf(SelectSeq(cache, LAMBDA train : Evictable(train, t)))

\* lines 328-329: del trains_cache[rid] for every rid of to_remove
AfterEviction(cache, t) == SelectSeq(cache, LAMBDA train : ~Evictable(train, t))

\* mutant: no upper cut-off
InWindowNoHorizon(train, t) ==
    /\ HasInstant(train)
    /\ t - GraceTicks < fromisoformat(train.parsed_time)

\* lines 334-336
InWindow(train, t) ==
    /\ HasInstant(train)
    /\ t - GraceTicks < fromisoformat(train.parsed_time)
    /\ fromisoformat(train.parsed_time) < t + HorizonTicks

\* list.sort(key=parsed_time): stable, on the isoformat strings
RECURSIVE InsertByKey(_, _)
InsertByKey(sorted, train) ==
    IF sorted = << >> THEN << train >>
    ELSE IF IsoLess(train.parsed_time, sorted[Len(sorted)].parsed_time)
    THEN Append(InsertByKey(SubSeq(sorted, 1, Len(sorted) - 1), train), sorted[Len(sorted)])
    ELSE Append(sorted, train)

RECURSIVE SortByParsedTime(_)
SortByParsedTime(trains) ==
    IF trains = << >> THEN << >>
    ELSE InsertByKey(SortByParsedTime(SubSeq(trains, 1, Len(trains) - 1)), trains[Len(trains)])

Upcoming(cache, t) == SortByParsedTime(SelectSeq(cache, LAMBDA train : InWindow(train, t)))

JsonResponse(upcoming, t) ==
    [trains |-> upcoming, count |-> Len(upcoming), timestamp |-> isoformat(t)]

---------------------------------------------------------------------------
(* s3_bootstrap.py: S3TimetableBootstrap *)

HoursAhead == 2
RolloverGraceHours == 1

\* mutant: a look-ahead of a whole day
CutoffWholeDay == TicksPerDay

CutoffTicks == HoursAhead * 60 * TicksPerMinute

RolloverGraceTicks == RolloverGraceHours * 60 * TicksPerMinute

\* now.strftime('%Y-%m-%d'), as the day number
DateOf(t) == t \div TicksPerDay

\* Journey.get('ssd', today)
NoDate == -1

\* S3TimetableBootstrap.parse_time, reading the clock at instant t
S3_parse_time(time_str, t) ==
    IF ~Truthy(time_str) THEN NoTime
    ELSE IF ~ValidHM(time_str) THEN NoTime
    ELSE LET train_time == ReplaceHM(t, time_str[1], time_str[2])
         IN IF train_time < t - RolloverGraceTicks
            THEN train_time + TicksPerDay ELSE train_time

\* mutant: public arrival before public departure
S3_SelectTimeArrivalFirst(location) ==
    IF Truthy(location.pta) \/ Truthy(location.ptd)
    THEN [type |-> "stopping", time |-> PyOr(location.pta, location.ptd)]
    ELSE IF Truthy(location.wtp)
    THEN [type |-> "passing", time |-> location.wtp]
    ELSE [type |-> "passing", time |-> PyOr(location.wtd, location.wta)]

\* lines 273-282 of extract_train_data
S3_SelectTime(location) ==
    IF Truthy(location.pta) \/ Truthy(location.ptd)
    THEN [type |-> "stopping", time |-> PyOr(location.ptd, location.pta)]
    ELSE IF Truthy(location.wtp)
    THEN [type |-> "passing", time |-> location.wtp]
    ELSE [type |-> "passing", time |-> PyOr(location.wtd, location.wta)]

S3Train(rid, uid, ssd, toc, type, time, parsed, origin, destination, platform) ==
    [rid |-> rid, uid |-> uid, ssd |-> ssd, toc |-> toc, type |-> type, time |-> time,
     parsed_time |-> parsed, origin |-> origin, destination |-> destination,
     platform |-> platform, eta |-> Absent, delayed |-> FALSE]

\* extract_train_data: the list of the 0 or 1 train it returns; begin is
\* parse_timetable's now, t the clock when parse_time runs
extract_train_data(rid, uid, ssd, toc, location, origin, destination, begin, t) ==
    LET sel == S3_SelectTime(location)
        train_time == S3_parse_time(sel.time, t)
    IN IF ~Truthy(sel.time) THEN << >>
       ELSE IF train_time = NoTime \/ train_time < begin \/ train_time > begin + CutoffTicks
       THEN << >>
       ELSE << S3Train(rid, uid, ssd, toc, sel.type, sel.time, isoformat(train_time),
                       origin, destination, location.plat) >>

\* journey.get(name, default)
AttrOr(value, default) == IF value = PyNone THEN default ELSE value

JourneySsd(journey, begin) == IF journey.ssd = NoDate THEN DateOf(begin) ELSE journey.ssd

\* mutant: only the service dates that are over are filtered out
EarlierServiceDate(ssd, today_str) == ssd < today_str

\* lines 195 and 560: ssd != today_str
OtherServiceDate(ssd, today_str) == ssd # today_str

\* lines 188-230 of parse_timetable for journey number n (from 1): the list of
\* the 0 or 1 train appended to self.trains
DirectTrain(journey, n, tiploc, begin, t) ==
    LET rid == AttrOr(journey.rid, "timetable_" \o ToString(n))
        uid == AttrOr(journey.uid, "unknown")
        ssd == JourneySsd(journey, begin)
        toc == AttrOr(journey.toc, "unknown")
        locs == journey.locs
        hits == { i \in 1..Len(locs) : locs[i].tpl = tiploc }
        origin == IF locs = << >> THEN PyNone ELSE locs[1].tpl
        destination == IF locs = << >> THEN PyNone ELSE locs[Len(locs)].tpl
    IN IF OtherServiceDate(ssd, DateOf(begin)) THEN << >>
       ELSE IF hits = {} THEN << >>
       ELSE extract_train_data(rid, uid, ssd, toc,
                               locs[CHOOSE i \in hits : \A j \in hits : j <= i],
                               origin, destination, begin, t)

---------------------------------------------------------------------------
(* find_passing_trains_by_inference *)

BEFORE_STATION == "BROXBRN"
BEFORE_STATION_ALT == "BROXBNJ"
BEFORE_STATION_ALT2 == "CHESHNT"
CAMBRIDGE_AFTER == "BSHPSFD"
STANSTED_AFTER == "STANAIR"
LIVST_CODES == {"LIVST", "LVRPLST"}
CAMBRIDGE_CODES == {"CAMBDGE", "CAMBNTH", "CAMBCSN"}
STANSTED_CODES == {"STANAIR"}
ELY_CODES == {"ELY", "ELYY"}
STRATFORD_CODES == {"STFD"}

\* the dict locations = {tpl: loc}: membership, lookup (a later location with
\* the same code replaces the value) and key order (first occurrences)
InLocations(locs, tpl) == \E i \in 1..Len(locs) : locs[i].tpl = tpl

LocationsGet(locs, tpl) ==
    locs[CHOOSE i \in 1..Len(locs) :
             locs[i].tpl = tpl /\ \A j \in 1..Len(locs) : locs[j].tpl = tpl => j <= i]

FirstOccurrences(locs) ==
    { i \in 1..Len(locs) : \A j \in 1..(i - 1) : locs[j].tpl # locs[i].tpl }

\* all_locs[0] and all_locs[-1]
InferOrigin(locs) == IF locs = << >> THEN PyNone ELSE locs[1].tpl

InferDestination(locs) ==
    IF locs = << >> THEN PyNone
    ELSE locs[CHOOSE i \in FirstOccurrences(locs) :
                  \A j \in FirstOccurrences(locs) : j <= i].tpl

NoRoute == [route |-> "none", before |-> "", after |-> ""]

\* lines 382-455: the route family and the two bracket codes
ClassifyRoute(locs) ==
    LET origin == InferOrigin(locs)
        destination == InferDestination(locs)
        has_broxbourne == \/ InLocations(locs, BEFORE_STATION)
                          \/ InLocations(locs, BEFORE_STATION_ALT)
                          \/ InLocations(locs, BEFORE_STATION_ALT2)
        is_stansted_route == destination \in STANSTED_CODES \/ origin \in STANSTED_CODES
        is_cambridge_route == destination \in CAMBRIDGE_CODES \/ origin \in CAMBRIDGE_CODES
        is_ely_route == destination \in ELY_CODES \/ origin \in ELY_CODES
        is_stratford_route == origin \in STRATFORD_CODES /\ destination = "BSHPSFD"
    IN IF has_broxbourne /\ is_stansted_route
       THEN IF destination \in STANSTED_CODES
            THEN [route |-> "Stansted", before |-> BEFORE_STATION_ALT2, after |-> CAMBRIDGE_AFTER]
            ELSE [route |-> "Stansted", before |-> CAMBRIDGE_AFTER, after |-> "LIVST"]
       ELSE IF has_broxbourne /\ is_ely_route /\ InLocations(locs, CAMBRIDGE_AFTER)
       THEN IF origin \in ELY_CODES
            THEN [route |-> "Ely", before |-> CAMBRIDGE_AFTER, after |-> "LIVST"]
            ELSE [route |-> "Ely", before |-> "LIVST", after |-> CAMBRIDGE_AFTER]
       ELSE IF has_broxbourne /\ is_stratford_route /\ InLocations(locs, CAMBRIDGE_AFTER)
       THEN [route |-> "Stratford", before |-> BEFORE_STATION_ALT2, after |-> CAMBRIDGE_AFTER]
       ELSE IF has_broxbourne /\ is_cambridge_route /\ InLocations(locs, CAMBRIDGE_AFTER)
       THEN IF origin \in CAMBRIDGE_CODES
            THEN [route |-> "Cambridge", before |-> CAMBRIDGE_AFTER, after |-> "LIVST"]
            ELSE [route |-> "Cambridge", before |-> "LIVST", after |-> CAMBRIDGE_AFTER]
       ELSE NoRoute

\* lines 458-466
IsValidRoute(locs) ==
    LET has_livst == \E code \in LIVST_CODES : InLocations(locs, code)
        has_cambridge == \E code \in CAMBRIDGE_CODES : InLocations(locs, code)
        has_stansted == \E code \in STANSTED_CODES : InLocations(locs, code)
        has_ely == \E code \in ELY_CODES : InLocations(locs, code)
        has_stratford == \E code \in STRATFORD_CODES : InLocations(locs, code)
    IN \/ has_livst /\ (has_cambridge \/ has_stansted \/ has_ely)
       \/ has_stratford /\ InLocations(locs, CAMBRIDGE_AFTER)

\* mutant: the station's CRS code is looked for among the TIPLOC codes
MissingCrs(locs, tiploc) == ~InLocations(locs, "RYN")

\* line 471
MissingRoydon(locs, tiploc) == ~InLocations(locs, tiploc)

\* lines 479-491: is the bracket location there, under either LIVST alias
HasBracket(locs, code) ==
    IF code = "LIVST"
    THEN InLocations(locs, "LIVST") \/ InLocations(locs, "LVRPLST")
    ELSE InLocations(locs, code)

BracketLoc(locs, code) ==
    IF code = "LIVST" /\ ~InLocations(locs, "LIVST")
    THEN LocationsGet(locs, "LVRPLST")
    ELSE LocationsGet(locs, code)

\* mutant: the before side resolved as the after side is
BeforeTimeStrArrivalFirst(loc) == PyOr(PyOr(PyOr(loc.pta, loc.ptd), loc.wta), loc.wtd)

\* lines 496-497
BeforeTimeStr(loc) == PyOr(PyOr(PyOr(loc.ptd, loc.pta), loc.wtd), loc.wta)

AfterTimeStr(loc) == PyOr(PyOr(PyOr(loc.pta, loc.ptd), loc.wta), loc.wtd)

\* mutant: half the duration added to before_time, taken for the earlier one
MidpointFromBefore(before_time, after_time) ==
    IF before_time < after_time
    THEN before_time + (after_time - before_time) \div 2
    ELSE before_time + (before_time - after_time) \div 2

\* lines 512-515: timedelta(minutes=seconds / 60 / 2) added to the earlier instant
Midpoint(before_time, after_time) ==
    IF before_time < after_time
    THEN before_time + (after_time - before_time) \div 2
    ELSE after_time + (before_time - after_time) \div 2

\* mutant: the Stansted offsets with the wrong sign
CalibrationStanstedSwapped(route_type, origin, destination) ==
    IF route_type = "Stansted" /\ destination \in STANSTED_CODES THEN 3
    ELSE IF route_type = "Stansted" THEN -5
    ELSE 0

\* lines 519-542, in minutes
CalibrationMinutes(route_type, origin, destination) ==
    LET is_outbound == \/ destination \in STANSTED_CODES
                       \/ destination \in CAMBRIDGE_CODES
                       \/ destination \in ELY_CODES
                       \/ destination = "BSHPSFD"
        is_inbound == \/ origin \in STANSTED_CODES
                      \/ origin \in CAMBRIDGE_CODES
                      \/ origin \in ELY_CODES
    IN IF route_type = "Stansted" /\ is_outbound THEN -3
       ELSE IF route_type = "Stansted" /\ is_inbound THEN 5
       ELSE IF route_type = "Cambridge" /\ is_inbound THEN -8
       ELSE IF route_type = "Cambridge" /\ is_outbound THEN 9
       ELSE IF route_type = "Ely" /\ is_inbound THEN -8
       ELSE IF route_type = "Ely" /\ is_outbound THEN 9
       ELSE IF route_type = "Stratford" THEN -8
       ELSE 0

Pad2(n) == IF n < 10 THEN "0" \o ToString(n) ELSE ToString(n)

\* pass_time.strftime('%H:%M') and ('%H%M')
StrfHM(t) == << isoformat(t)[2], isoformat(t)[3] >>
StrfHHMM(t) == Pad2(isoformat(t)[2]) \o Pad2(isoformat(t)[3])

\* the body of the loop of lines 368-580 for one journey: the list of the 0 or
\* 1 record appended to passing_trains; t1 and t2 are the clock when the two
\* calls of parse_time run
InferredTrain(journey, tiploc, begin, t1, t2) ==
    LET locs == journey.locs
        cls == ClassifyRoute(locs)
        origin == InferOrigin(locs)
        destination == InferDestination(locs)
    IN IF cls.route = "none" THEN << >>
       ELSE IF ~IsValidRoute(locs) THEN << >>
       ELSE IF ~MissingRoydon(locs, tiploc) THEN << >>
       ELSE IF ~HasBracket(locs, cls.before) \/ ~HasBracket(locs, cls.after) THEN << >>
       ELSE
         LET before_time_str == BeforeTimeStr(BracketLoc(locs, cls.before))
             after_time_str == AfterTimeStr(BracketLoc(locs, cls.after))
             before_time == S3_parse_time(before_time_str, t1)
             after_time == S3_parse_time(after_time_str, t2)
             pass_time == Midpoint(before_time, after_time)
                          + CalibrationMinutes(cls.route, origin, destination) * TicksPerMinute
         IN IF ~Truthy(before_time_str) \/ ~Truthy(after_time_str) THEN << >>
            ELSE IF before_time = NoTime \/ after_time = NoTime THEN << >>
            ELSE IF pass_time < begin \/ pass_time > begin + CutoffTicks THEN << >>
            ELSE IF OtherServiceDate(JourneySsd(journey, begin), DateOf(begin)) THEN << >>
            ELSE << S3Train(AttrOr(journey.rid, "inferred_" \o StrfHHMM(pass_time)),
                            AttrOr(journey.uid, "unknown"),
                            JourneySsd(journey, begin),
                            AttrOr(journey.toc, "unknown"),
                            "passing", StrfHM(pass_time), isoformat(pass_time),
                            origin, destination, Absent) >>

\* mutant: the last record of each rid is kept
KeepLast(list, seen_rids) ==
    SelectSeq(list, LAMBDA r : r = list[CHOOSE i \in 1..Len(list) :
                                            /\ list[i].rid = r.rid
                                            /\ \A k \in 1..Len(list) : list[k].rid = r.rid => k <= i])

\* lines 586-594: keep the first record of each rid
RECURSIVE Deduplicate(_, _)
Deduplicate(list, seen_rids) ==
    IF list = << >> THEN << >>
    ELSE IF Head(list).rid \in seen_rids
    THEN Deduplicate(Tail(list), seen_rids)
    ELSE << Head(list) >> \o Deduplicate(Tail(list), seen_rids \cup {Head(list).rid})

\* lines 181-234: the trains of the journeys from number n on
RECURSIVE DirectTrains(_, _, _)
DirectTrains(xml, n, t) ==
    IF n > Len(xml) THEN << >>
    ELSE DirectTrain(xml[n], n, ROYDON_TIPLOC, t, t) \o DirectTrains(xml, n + 1, t)

\* lines 368-580: the records of the journeys from number n on
RECURSIVE InferredTrains(_, _, _)
InferredTrains(xml, n, t) ==
    IF n > Len(xml) THEN << >>
    ELSE InferredTrain(xml[n], ROYDON_TIPLOC, t, t, t) \o InferredTrains(xml, n + 1, t)

\* what parse_timetable returns for a timetable parsed at instant t
parse_timetable(xml, t) ==
    DirectTrains(xml, 1, t) \o Deduplicate(InferredTrains(xml, 1, t), {})

---------------------------------------------------------------------------
(* The timetables handed to parse_timetable *)

TimeFields == {"pta", "ptd", "wtp", "wta", "wtd"}

\* a different time in each of the five fields
FieldTime == [pta |-> <<14, 1>>, ptd |-> <<14, 2>>, wtp |-> <<14, 3>>,
              wta |-> <<14, 4>>, wtd |-> <<14, 5>>]

\* the location that carries exactly the fields in present
TimesOf(present) == [f \in TimeFields |-> IF f \in present THEN FieldTime[f] ELSE Absent]

TEarly == <<13, 50>>
TLate == <<14, 10>>
TGone == <<13, 0>>
TRolled == <<12, 0>>
TEdge == <<15, 30>>
TBoot == <<13, 30>>

\* attributes that are there but unusable, and times around the window
OddTimes ==
    { [Times5 EXCEPT !.pta = EmptyStr, !.wtp = TA, !.wtd = TB],
      [Times5 EXCEPT !.ptd = EmptyStr, !.pta = TA, !.wtp = TB],
      [Times5 EXCEPT !.pta = EmptyStr, !.wtd = EmptyStr],
      [Times5 EXCEPT !.wtp = TBad],
      [Times5 EXCEPT !.ptd = TFar],
      [Times5 EXCEPT !.ptd = TEdge],
      [Times5 EXCEPT !.wtp = TBoot],
      [Times5 EXCEPT !.wtp = TGone],
      [Times5 EXCEPT !.wtp = TRolled] }

Journey(rid, ssd, locs) ==
    [tag |-> "Journey", rid |-> rid, uid |-> "U", ssd |-> ssd, toc |-> "LE", locs |-> locs]

\* a journey that lists the observation point
CallingJourney(rid, ssd, t) ==
    Journey(rid, ssd,
            << XmlLoc("OR", "HERTFDE", [Times5 EXCEPT !.ptd = TEarly], Absent, Absent),
               XmlLoc("IP", ROYDON_TIPLOC, t, Absent, Absent),
               XmlLoc("DT", "HARLOWT", [Times5 EXCEPT !.pta = TLate], Absent, Absent) >>)

\* Liverpool Street to Stansted Airport, not listed at the observation point
StanstedJourney(rid, ssd, before, after) ==
    Journey(rid, ssd,
            << XmlLoc("OR", "LIVST", [Times5 EXCEPT !.ptd = TGone], Absent, Absent),
               XmlLoc("IP", "CHESHNT", [Times5 EXCEPT !.ptd = before], Absent, Absent),
               XmlLoc("PP", "BROXBRN", [Times5 EXCEPT !.wtp = TEarly], Absent, Absent),
               XmlLoc("IP", "BSHPSFD", [Times5 EXCEPT !.pta = after], Absent, Absent),
               XmlLoc("DT", "STANAIR", [Times5 EXCEPT !.pta = TB], Absent, Absent) >>)

\* Liverpool Street to Stansted Airport, listed at the observation point
StanstedCallingJourney(rid, ssd, t) ==
    Journey(rid, ssd,
            << XmlLoc("OR", "LIVST", [Times5 EXCEPT !.ptd = TGone], Absent, Absent),
               XmlLoc("IP", "CHESHNT", [Times5 EXCEPT !.ptd = TEarly], Absent, Absent),
               XmlLoc("PP", "BROXBRN", [Times5 EXCEPT !.wtp = TEarly], Absent, Absent),
               XmlLoc("PP", ROYDON_TIPLOC, t, Absent, Absent),
               XmlLoc("IP", "BSHPSFD", [Times5 EXCEPT !.pta = TLate], Absent, Absent),
               XmlLoc("DT", "STANAIR", [Times5 EXCEPT !.pta = TB], Absent, Absent) >>)

\* Liverpool Street to Stansted Airport and back to Bishops Stortford, not
\* listed at the observation point
StanstedAndBackJourney(rid, ssd) ==
    Journey(rid, ssd,
            << XmlLoc("OR", "LIVST", [Times5 EXCEPT !.ptd = TGone], Absent, Absent),
               XmlLoc("IP", "CHESHNT", [Times5 EXCEPT !.ptd = TEarly], Absent, Absent),
               XmlLoc("PP", "BROXBRN", [Times5 EXCEPT !.wtp = TEarly], Absent, Absent),
               XmlLoc("IP", "BSHPSFD", [Times5 EXCEPT !.pta = TLate], Absent, Absent),
               XmlLoc("IP", "STANAIR", [Times5 EXCEPT !.pta = TB], Absent, Absent),
               XmlLoc("DT", "BSHPSFD", [Times5 EXCEPT !.pta = TLate], Absent, Absent) >>)

BracketFields == {"ptd", "pta", "wtd", "wta"}

\* a different time in each field of the before bracket and of the after
\* bracket, so that every choice of two fields gives a midpoint of its own
BeforeFieldTime == [ptd |-> <<13, 50>>, pta |-> <<13, 52>>, wtd |-> <<13, 54>>,
                    wta |-> <<13, 56>>, wtp |-> Absent]
AfterFieldTime == [pta |-> <<14, 10>>, ptd |-> <<14, 18>>, wta |-> <<14, 26>>,
                   wtd |-> <<14, 34>>, wtp |-> Absent]

BracketTimes(times, present) ==
    [f \in TimeFields |-> IF f \in present THEN times[f] ELSE Absent]

\* Liverpool Street to Stansted Airport, not listed at the observation point,
\* with the given fields at Cheshunt and at Bishops Stortford
BracketedJourney(rid, before_fields, after_fields) ==
    Journey(rid, 0,
            << XmlLoc("OR", "LIVST", [Times5 EXCEPT !.ptd = TGone], Absent, Absent),
               XmlLoc("IP", "CHESHNT", BracketTimes(BeforeFieldTime, before_fields), Absent, Absent),
               XmlLoc("PP", "BROXBRN", [Times5 EXCEPT !.wtp = TEarly], Absent, Absent),
               XmlLoc("IP", "BSHPSFD", BracketTimes(AfterFieldTime, after_fields), Absent, Absent),
               XmlLoc("DT", "STANAIR", [Times5 EXCEPT !.pta = TFar], Absent, Absent) >>)

\* Liverpool Street to Stansted Airport without a location at Cheshunt
NoCheshuntJourney(rid) ==
    Journey(rid, 0,
            << XmlLoc("OR", "LIVST", [Times5 EXCEPT !.ptd = TGone], Absent, Absent),
               XmlLoc("PP", "BROXBRN", [Times5 EXCEPT !.wtp = TEarly], Absent, Absent),
               XmlLoc("IP", "BSHPSFD", [Times5 EXCEPT !.pta = TLate], Absent, Absent),
               XmlLoc("DT", "STANAIR", [Times5 EXCEPT !.pta = TFar], Absent, Absent) >>)

\* a location at Liverpool Street under one of its two codes
HubLoc(code) ==
    XmlLoc("DT", code,
           [Times5 EXCEPT !.pta = IF code = "LIVST" THEN TLate ELSE <<14, 20>>], Absent, Absent)

\* Stansted Airport to Liverpool Street, not listed at the observation
\* point, ending with the given locations at Liverpool Street
InboundJourney(rid, hubs) ==
    Journey(rid, 0,
            << XmlLoc("OR", "STANAIR", [Times5 EXCEPT !.ptd = TBoot], Absent, Absent),
               XmlLoc("IP", "BSHPSFD", [Times5 EXCEPT !.ptd = TEarly], Absent, Absent),
               XmlLoc("PP", "BROXBRN", [Times5 EXCEPT !.wtp = TA], Absent, Absent) >> \o hubs)

\* Stansted Airport to Cambridge by way of Liverpool Street, not listed at the
\* observation point: both ends are end points of the corridor
StanstedToCambridgeJourney(rid) ==
    Journey(rid, 0,
            << XmlLoc("OR", "STANAIR", [Times5 EXCEPT !.ptd = TBoot], Absent, Absent),
               XmlLoc("IP", "BSHPSFD", [Times5 EXCEPT !.ptd = TEarly], Absent, Absent),
               XmlLoc("PP", "BROXBRN", [Times5 EXCEPT !.wtp = TA], Absent, Absent),
               XmlLoc("IP", "LIVST", [Times5 EXCEPT !.pta = TLate], Absent, Absent),
               XmlLoc("DT", "CAMBDGE", [Times5 EXCEPT !.pta = TFar], Absent, Absent) >>)

\* Cambridge to Ely by way of Liverpool Street, not listed at the observation
\* point
CambridgeToElyJourney(rid) ==
    Journey(rid, 0,
            << XmlLoc("OR", "CAMBDGE", [Times5 EXCEPT !.ptd = TGone], Absent, Absent),
               XmlLoc("IP", "LIVST", [Times5 EXCEPT !.ptd = TEarly], Absent, Absent),
               XmlLoc("PP", "BROXBRN", [Times5 EXCEPT !.wtp = TA], Absent, Absent),
               XmlLoc("IP", "BSHPSFD", [Times5 EXCEPT !.pta = TLate], Absent, Absent),
               XmlLoc("DT", "ELY", [Times5 EXCEPT !.pta = TFar], Absent, Absent) >>)

\* Cambridge to Liverpool Street, not listed at the observation point
CambridgeJourney(rid, ssd) ==
    Journey(rid, ssd,
            << XmlLoc("OR", "CAMBDGE", [Times5 EXCEPT !.ptd = TEarly], Absent, Absent),
               XmlLoc("IP", "BSHPSFD", [Times5 EXCEPT !.ptd = TA], Absent, Absent),
               XmlLoc("PP", "BROXBRN", [Times5 EXCEPT !.wtp = TB], Absent, Absent),
               XmlLoc("DT", "LIVST", [Times5 EXCEPT !.pta = <<14, 41>>], Absent, Absent) >>)

Timetables ==
    { << CallingJourney("J1", 0, TimesOf(present)) >> : present \in SUBSET TimeFields }
    \cup { << CallingJourney("J1", 0, t) >> : t \in OddTimes }
    \cup { << CallingJourney("J1", 1, TimesOf({"wtp"})) >>,
           << CallingJourney(PyNone, NoDate, TimesOf({"ptd"})) >>,
           << CallingJourney("J1", 0, TimesOf({"pta"})), CallingJourney("J2", 0, TimesOf({"wta"})) >>,
           << CallingJourney("J1", 0, TimesOf({"pta"})), CallingJourney("J2", 0, Times5),
              CallingJourney("J3", 1, TimesOf({"wtp"})),
              CallingJourney("J4", 0, [Times5 EXCEPT !.wtp = TBad]),
              CallingJourney("J5", 0, TimesOf({"wtp", "wtd"})) >>,
           << StanstedJourney("J1", 0, TEarly, TLate) >>,
           << StanstedJourney("J1", 1, TEarly, TLate) >>,
           << StanstedAndBackJourney("J1", 0) >>,
           << NoCheshuntJourney("J1") >>,
           << StanstedToCambridgeJourney("J1") >>,
           << CambridgeToElyJourney("J1") >>,
           << InboundJourney("J1", << HubLoc("LIVST") >>) >>,
           << InboundJourney("J1", << HubLoc("LVRPLST") >>) >>,
           << InboundJourney("J1", << HubLoc("LVRPLST"), HubLoc("LIVST") >>) >>,
           << StanstedCallingJourney("J1", 0, TimesOf({"wtp"})) >>,
           << StanstedCallingJourney("J1", 0, Times5) >>,
           << CallingJourney("J1", 0, TimesOf({"wtp"})), StanstedJourney("J1", 0, TEarly, TLate) >>,
           << StanstedJourney(PyNone, NoDate, TEarly, TLate) >>,
           << StanstedJourney("J1", 0, Absent, TLate) >>,
           << StanstedJourney("J1", 0, TGone, TEarly) >>,
           << StanstedJourney("J1", 0, TFar, TFar) >>,
           << StanstedJourney("J1", 0, TEarly, TLate), StanstedJourney("J1", 0, TLate, TFar) >>,
           << CambridgeJourney("J1", 0), CallingJourney("J2", 0, TimesOf({"wtp"})) >> }
    \cup { << BracketedJourney("J1", before_fields, after_fields) >> :
               before_fields \in SUBSET BracketFields, after_fields \in SUBSET BracketFields }

---------------------------------------------------------------------------
(* Initial state *)

NoTrain ==
    [rid |-> PyNone, uid |-> PyNone, ssd |-> -1, type |-> PyNone, time |-> Absent,
     parsed_time |-> IsoNone, destination |-> PyNone, origin |-> PyNone, toc |-> PyNone,
     eta |-> Absent, delayed |-> FALSE, actual |-> FALSE]

NoResponse == [trains |-> << >>, count |-> 0, timestamp |-> IsoNone]

NoCalc == [fn |-> "none"]

NoAttempt == [client_id |-> PyNone, subscription |-> PyNone]

\* no /health or /api/status request is being served
NoEndpoint == [pc |-> "idle", route |-> PyNone, stopping |-> 0, passing |-> 0, total |-> 0]

\* the connect thread has not been started and nothing has been connected
ConnAtRest ==
    /\ darwin_connected = FALSE
    /\ cpc = "off"
    /\ link = "down"
    /\ sleep_for = 0
    /\ attempt = NoAttempt
    /\ failures = 0
    /\ down_cause = "none"

Init ==
    /\ program \in {"pushport", "bootstrap"}
    /\ now = IF program = "pushport" THEN StartInstant ELSE BootInstant
    /\ trains_cache = << >>
    /\ lpc = "idle"
    /\ body = NoBody
    /\ frame = << >>
    /\ idx = 0
    /\ pending = NoTrain
    /\ locq = << >>
    /\ outcome = "none"
    /\ qpc = "idle"
    /\ qnow = NoTime
    /\ to_remove = << >>
    /\ response = NoResponse
    /\ last_snapshot_load = NoTime
    /\ bpc = "idle"
    /\ journeys = << >>
    /\ bidx = 0
    /\ start = NoTime
    /\ self_trains = << >>
    /\ passing_trains = << >>
    /\ calc = NoCalc
    /\ creds = TRUE
    /\ ConnAtRest
    /\ cache_lock = "free"
    /\ endpoint = NoEndpoint

listenerVars == <<lpc, body, frame, idx, pending, locq, outcome>>
queryVars == <<qpc, qnow, to_remove, response>>
bootVars == <<bpc, journeys, bidx, start, self_trains, passing_trains>>
connVars == <<creds, darwin_connected, cpc, link, sleep_for, attempt, failures, down_cause>>
lockVars == <<cache_lock, endpoint>>

---------------------------------------------------------------------------
(* The clock *)

\* No thread is between its last access to shared state and its return.  The
\* two returns touch nothing shared, so they commute with every other step and
\* are taken first.
Settled == lpc # "done" /\ qpc # "responded"

\* __main__ has called load_initial_trains and started the threads
Started == last_snapshot_load # NoTime

Tick ==
    /\ Settled
    /\ program = "pushport" => Started
    /\ \E t \in IF program = "pushport" THEN ClockInstants ELSE BootClockInstants :
           t > now /\ now' = t
    /\ UNCHANGED <<trains_cache, listenerVars, queryVars, last_snapshot_load, program, lockVars, calc, connVars, bootVars>>

---------------------------------------------------------------------------
(* __main__ and the refresh thread *)

\* lines 71-78: the timetable is not read, the cache is not written
load_initial_trains ==
    /\ last_snapshot_load' = now
    /\ UNCHANGED <<now, trains_cache, listenerVars, queryVars, program, lockVars, calc, connVars, bootVars>>

\* lines 399-402, at the instant the process starts
Startup ==
    /\ program = "pushport" /\ ~Started
    /\ load_initial_trains

\* lines 405-408: every REFRESH_INTERVAL
RefreshTrainsPeriodically ==
    /\ program = "pushport" /\ Started /\ Settled
    /\ now >= last_snapshot_load + RefreshTicks
    /\ load_initial_trains

---------------------------------------------------------------------------
(* The listener thread.  Its steps are the points where it reads the clock *)
(* or touches trains_cache; the code between two such points is local.     *)

\* where process_train_status stands from element i on
StatusPosition(doc, i) ==
    LET j == NextStatus(doc, i)
    IN IF j <= Len(doc) THEN [pc |-> "status_check", idx |-> j]
       ELSE [pc |-> "done", idx |-> 0]

\* mutant: process_train_status is called only when process_schedules has
\* written nothing
ScheduleOrStatusPosition(doc, i) ==
    LET j == NextSchedule(doc, i)
    IN IF j <= Len(doc) THEN [pc |-> "parse", idx |-> j]
       ELSE IF i > 1 THEN [pc |-> "done", idx |-> 0]
       ELSE StatusPosition(doc, 1)

\* where process_schedules stands from element i on; process_train_status follows
SchedulePosition(doc, i) ==
    LET j == NextSchedule(doc, i)
    IN IF j <= Len(doc) THEN [pc |-> "parse", idx |-> j]
       ELSE StatusPosition(doc, 1)

\* line 185 and the dict literal for element i of doc, before the lock is taken
ParseAt(doc, i) ==
    /\ pending' = NewTrain(doc[i], now)
    /\ lpc' = "sched_write"
    /\ idx' = i
    /\ UNCHANGED <<trains_cache, locq, outcome>>

\* line 214 for element i of doc, without the lock, and the scan for the
\* matching locations
CheckAt(doc, i) ==
    /\ IF HasKey(trains_cache, doc[i].rid) /\ MatchingLocations(doc[i]) # << >>
       THEN /\ locq' = MatchingLocations(doc[i])
            /\ lpc' = "status_write"
            /\ idx' = i
            /\ UNCHANGED outcome
       ELSE /\ outcome' = IF HasKey(trains_cache, doc[i].rid)
                          THEN "status_nomatch" ELSE "status_unknown"
            /\ lpc' = StatusPosition(doc, i + 1).pc
            /\ idx' = StatusPosition(doc, i + 1).idx
            /\ UNCHANGED locq
    /\ UNCHANGED <<trains_cache, pending>>

\* on_message with a body that decompresses and parses to doc, up to its first
\* read of the clock or of trains_cache
OnMessage(b) ==
    /\ program = "pushport" /\ Started
    /\ lpc = "idle" /\ Settled
    /\ body' = b
    /\ frame' = Root(b)
    /\ LET pos == SchedulePosition(Root(b), 1)
       IN CASE pos.pc = "parse" -> ParseAt(Root(b), pos.idx)
            [] pos.pc = "status_check" -> CheckAt(Root(b), pos.idx)
            [] OTHER -> /\ lpc' = "done"
                        /\ idx' = 0
                        /\ UNCHANGED <<trains_cache, pending, locq, outcome>>
    /\ UNCHANGED <<now, queryVars, last_snapshot_load, program, lockVars, calc, connVars, bootVars>>

\* process_schedules reaches a later schedule element of the document
ParseSchedule ==
    /\ lpc = "parse" /\ Settled
    /\ ParseAt(frame, idx)
    /\ UNCHANGED <<now, body, frame, queryVars, last_snapshot_load, program, lockVars, calc, connVars, bootVars>>

\* lines 187-200: with cache_lock
WriteSchedule ==
    /\ lpc = "sched_write" /\ Settled
    /\ cache_lock = "free"
    /\ trains_cache' = Put(trains_cache, pending)
    /\ outcome' = "ingested"
    /\ pending' = NoTrain
    /\ lpc' = SchedulePosition(frame, idx + 1).pc
    /\ idx' = SchedulePosition(frame, idx + 1).idx
    /\ UNCHANGED <<now, body, frame, locq, queryVars, last_snapshot_load, program, lockVars, calc, connVars, bootVars>>

\* process_train_status reaches a TS element after the listener's first access
CheckStatus ==
    /\ lpc = "status_check" /\ Settled
    /\ CheckAt(frame, idx)
    /\ UNCHANGED <<now, body, frame, queryVars, last_snapshot_load, program, lockVars, calc, connVars, bootVars>>

\* lines 222-232: with cache_lock, for the next matching location
WriteStatus ==
    /\ lpc = "status_write" /\ Settled
    /\ cache_lock = "free"
    /\ trains_cache' = ApplyStatus(trains_cache, frame[idx].rid, Head(locq))
    /\ outcome' = StatusOutcome(trains_cache, frame[idx].rid, Head(locq))
    /\ locq' = Tail(locq)
    /\ IF Tail(locq) = << >>
       THEN /\ lpc' = StatusPosition(frame, idx + 1).pc
            /\ idx' = StatusPosition(frame, idx + 1).idx
       ELSE UNCHANGED <<lpc, idx>>
    /\ UNCHANGED <<now, body, frame, pending, queryVars, last_snapshot_load, program, lockVars, calc, connVars, bootVars>>

\* on_message returns
OnMessageReturn ==
    /\ lpc = "done"
    /\ lpc' = "idle"
    /\ body' = NoBody
    /\ frame' = << >>
    /\ idx' = 0
    /\ outcome' = "none"
    /\ UNCHANGED <<now, trains_cache, pending, locq, queryVars, last_snapshot_load, program, lockVars, calc, connVars, bootVars>>

---------------------------------------------------------------------------
(* The query thread *)

\* lines 315-317
QueryStart ==
    /\ program = "pushport" /\ Started
    /\ qpc = "idle" /\ Settled
    /\ qnow' = now
    /\ qpc' = "locked"
    /\ UNCHANGED <<now, trains_cache, listenerVars, to_remove, response, last_snapshot_load, program, lockVars, calc, connVars, bootVars>>

\* lines 319-347: with cache_lock
QueryRun ==
    /\ qpc = "locked" /\ Settled
    /\ cache_lock = "free"
    /\ to_remove' = ToRemove(trains_cache, qnow)
    /\ trains_cache' = AfterEviction(trains_cache, qnow)
    /\ response' = JsonResponse(Upcoming(AfterEviction(trains_cache, qnow), qnow), qnow)
    /\ qpc' = "responded"
    /\ UNCHANGED <<now, listenerVars, qnow, last_snapshot_load, program, lockVars, calc, connVars, bootVars>>

\* the response has been sent
QueryReturn ==
    /\ qpc = "responded"
    /\ qpc' = "idle"
    /\ qnow' = NoTime
    /\ to_remove' = << >>
    /\ response' = NoResponse
    /\ UNCHANGED <<now, trains_cache, listenerVars, last_snapshot_load, program, lockVars, calc, connVars, bootVars>>

---------------------------------------------------------------------------
(* The locked section of get_realtime_trains step by step: the lock is     *)
(* taken, the clean-up loops run, the response is built and the lock is    *)
(* given back.                                                             *)

\* line 319: with cache_lock
QueryAcquire ==
    /\ qpc = "locked" /\ Settled
    /\ cache_lock = "free"
    /\ cache_lock' = "query"
    /\ qpc' = "evicting"
    /\ UNCHANGED <<now, trains_cache, listenerVars, qnow, to_remove, response, last_snapshot_load,
                   program, endpoint, calc, connVars, bootVars>>

\* lines 321-329
QueryEvict ==
    /\ qpc = "evicting" /\ Settled
    /\ to_remove' = ToRemove(trains_cache, qnow)
    /\ trains_cache' = AfterEviction(trains_cache, qnow)
    /\ qpc' = "collecting"
    /\ UNCHANGED <<now, listenerVars, qnow, response, last_snapshot_load, program, lockVars, calc, connVars, bootVars>>

\* lines 332-347; the with block ends with the return
QueryCollect ==
    /\ qpc = "collecting" /\ Settled
    /\ response' = JsonResponse(Upcoming(trains_cache, qnow), qnow)
    /\ cache_lock' = "free"
    /\ qpc' = "responded"
    /\ UNCHANGED <<now, trains_cache, listenerVars, qnow, to_remove, last_snapshot_load,
                   program, endpoint, calc, connVars, bootVars>>

---------------------------------------------------------------------------
(* health and status *)

\* len([t for t in trains_cache.values() if t.get('type') == type])
CountOfType(cache, type) == Len(SelectSeq(cache, LAMBDA train : train.type = type))

\* lines 353-359: len(trains_cache), no lock
Health ==
    /\ program = "pushport" /\ Started
    /\ endpoint.pc = "idle"
    /\ endpoint' = [pc |-> "done", route |-> "health", stopping |-> 0, passing |-> 0,
                    total |-> Len(trains_cache)]
    /\ UNCHANGED <<now, trains_cache, listenerVars, queryVars, last_snapshot_load, program, cache_lock,
                   calc, connVars, bootVars>>

\* lines 365-367: with cache_lock, the two counts
StatusCount ==
    /\ program = "pushport" /\ Started
    /\ endpoint.pc = "idle"
    /\ cache_lock = "free"
    /\ endpoint' = [pc |-> "counted", route |-> "status",
                    stopping |-> CountOfType(trains_cache, "stopping"),
                    passing |-> CountOfType(trains_cache, "passing"),
                    total |-> 0]
    /\ UNCHANGED <<now, trains_cache, listenerVars, queryVars, last_snapshot_load, program, cache_lock,
                   calc, connVars, bootVars>>

\* lines 369-386: the lock has been given back; 'total': len(trains_cache)
StatusTotal ==
    /\ endpoint.pc = "counted"
    /\ endpoint' = [endpoint EXCEPT !.pc = "done", !.total = Len(trains_cache)]
    /\ UNCHANGED <<now, trains_cache, listenerVars, queryVars, last_snapshot_load, program, cache_lock,
                   calc, connVars, bootVars>>

\* the response has been sent
EndpointReturn ==
    /\ endpoint.pc = "done"
    /\ endpoint' = NoEndpoint
    /\ UNCHANGED <<now, trains_cache, listenerVars, queryVars, last_snapshot_load, program, cache_lock,
                   calc, connVars, bootVars>>

---------------------------------------------------------------------------
(* connect_to_darwin and the connection callbacks *)

PollSeconds == 10
RetrySeconds == 30
MaxFailures == 2

\* line 41, with DARWIN_USERNAME = "user"
DARWIN_CLIENT_ID == "user-roydon-crossing"

\* lines 274 and 281: the client-id of connect and the
\* activemq.subscriptionName of subscribe
ConnectHeaders == [client_id |-> DARWIN_CLIENT_ID, subscription |-> DARWIN_CLIENT_ID]

\* mutant: the wait doubles with every failure
RetryDelayDoubling(n) == RetrySeconds * (2 ^ n)

\* line 295: the wait after the n-th failure
RetryDelay(n) == RetrySeconds

\* the history count of failures, which stops counting at MaxFailures
CountFailure(n) == IF n < MaxFailures THEN n + 1 ELSE n

\* lines 414-415 and 252-265: the thread is started; without credentials
\* connect_to_darwin returns at once
StartDarwinThread ==
    /\ program = "pushport" /\ Started
    /\ cpc = "off"
    /\ cpc' = IF creds THEN "loop" ELSE "returned"
    /\ UNCHANGED <<now, trains_cache, listenerVars, queryVars, last_snapshot_load, program, lockVars, calc, bootVars,
                   creds, darwin_connected, link, sleep_for, attempt, failures, down_cause>>

\* lines 269-275: the flag is down, conn.connect is called
ConnectBegin ==
    /\ cpc = "loop" /\ ~darwin_connected
    /\ cpc' = "connecting"
    /\ attempt' = ConnectHeaders
    /\ UNCHANGED <<now, trains_cache, listenerVars, queryVars, last_snapshot_load, program, lockVars, calc, bootVars,
                   creds, darwin_connected, link, sleep_for, failures, down_cause>>

\* lines 270-286: connect and subscribe both return (stomp.py has run
\* on_connected by then), and the thread sleeps
ConnectSucceeds ==
    /\ cpc = "connecting"
    /\ link' = "up"
    /\ darwin_connected' = TRUE
    /\ down_cause' = "none"
    /\ cpc' = "sleeping"
    /\ sleep_for' = PollSeconds
    /\ UNCHANGED <<now, trains_cache, listenerVars, queryVars, last_snapshot_load, program, lockVars, calc, bootVars,
                   creds, attempt, failures>>

\* lines 292-295: connect or subscribe raises
ConnectFails ==
    /\ cpc = "connecting"
    /\ link' = "down"
    /\ darwin_connected' = FALSE
    /\ down_cause' = "failed"
    /\ failures' = CountFailure(failures)
    /\ cpc' = "sleeping"
    /\ sleep_for' = RetryDelay(CountFailure(failures))
    /\ UNCHANGED <<now, trains_cache, listenerVars, queryVars, last_snapshot_load, program, lockVars, calc, bootVars,
                   creds, attempt>>

\* lines 269 and 286: the flag is up, nothing to do but sleep
LoopConnected ==
    /\ cpc = "loop" /\ darwin_connected
    /\ cpc' = "sleeping"
    /\ sleep_for' = PollSeconds
    /\ UNCHANGED <<now, trains_cache, listenerVars, queryVars, last_snapshot_load, program, lockVars, calc, bootVars,
                   creds, darwin_connected, link, attempt, failures, down_cause>>

\* time.sleep returns, the loop goes round
Wake ==
    /\ cpc = "sleeping"
    /\ cpc' = "loop"
    /\ sleep_for' = 0
    /\ UNCHANGED <<now, trains_cache, listenerVars, queryVars, last_snapshot_load, program, lockVars, calc, bootVars,
                   creds, darwin_connected, link, attempt, failures, down_cause>>

\* lines 242-245: the session is lost; stomp.py calls on_disconnected in the
\* thread that runs on_message, so between two frames
OnDisconnected ==
    /\ link = "up" /\ lpc = "idle"
    /\ link' = "down"
    /\ darwin_connected' = FALSE
    /\ down_cause' = "disconnected"
    /\ UNCHANGED <<now, trains_cache, listenerVars, queryVars, last_snapshot_load, program, lockVars, calc, bootVars,
                   creds, cpc, sleep_for, attempt, failures>>

\* a frame of the subscription is delivered
Deliver(b) == link = "up" /\ OnMessage(b)

---------------------------------------------------------------------------
(* The bootstrap: S3TimetableBootstrap.parse_timetable.  One step for the  *)
(* start, one for each journey of each of the two loops, one for the end.  *)

\* lines 160-179
ParseTimetable(xml) ==
    /\ program = "bootstrap"
    /\ bpc = "idle"
    /\ journeys' = xml
    /\ start' = now
    /\ bidx' = 1
    /\ bpc' = "direct"
    /\ UNCHANGED <<now, trains_cache, listenerVars, queryVars, last_snapshot_load, program, lockVars, calc, connVars, self_trains, passing_trains>>

\* lines 181-234 for one journey
DirectStep ==
    /\ bpc = "direct"
    /\ self_trains' = self_trains \o DirectTrain(journeys[bidx], bidx, ROYDON_TIPLOC, start, now)
    /\ IF bidx < Len(journeys)
       THEN bidx' = bidx + 1 /\ bpc' = bpc
       ELSE bidx' = 1 /\ bpc' = "infer"
    /\ UNCHANGED <<now, trains_cache, listenerVars, queryVars, last_snapshot_load, program, lockVars, calc, connVars, journeys, start,
                   passing_trains>>

\* lines 368-580 for one journey; the clock may move between the two calls
\* of parse_time
InferStep ==
    /\ bpc = "infer"
    /\ \E t2 \in BootClockInstants \cup {now} :
          /\ t2 >= now
          /\ now' = t2
          /\ passing_trains' =
                passing_trains \o InferredTrain(journeys[bidx], ROYDON_TIPLOC, start, now, t2)
    /\ IF bidx < Len(journeys)
       THEN bidx' = bidx + 1 /\ bpc' = bpc
       ELSE bidx' = 0 /\ bpc' = "extend"
    /\ UNCHANGED <<trains_cache, listenerVars, queryVars, last_snapshot_load, program, lockVars, calc, connVars, journeys, start, self_trains>>

\* lines 586-594 and 244-253
ExtendTrains ==
    /\ bpc = "extend"
    /\ self_trains' = self_trains \o Deduplicate(passing_trains, {})
    /\ bpc' = "done"
    /\ UNCHANGED <<now, trains_cache, listenerVars, queryVars, last_snapshot_load, program, lockVars, calc, connVars, journeys, bidx, start,
                   passing_trains>>

Next ==
    \/ Tick
    \/ Startup
    \/ \E b \in Bodies : OnMessage(b)
    \/ ParseSchedule
    \/ WriteSchedule
    \/ CheckStatus
    \/ WriteStatus
    \/ OnMessageReturn
    \/ QueryStart
    \/ QueryRun
    \/ QueryReturn
    \/ \E xml \in Timetables : ParseTimetable(xml)
    \/ DirectStep
    \/ InferStep
    \/ ExtendTrains

Spec == Init /\ [][Next]_vars

---------------------------------------------------------------------------
(* The tracker over the refresh thread's sleeps: the clock is read at the  *)
(* start and at the end of each sleep of REFRESH_INTERVAL.                 *)

MaxRefreshes == 1

RefreshClockInstants == { StartInstant + k * RefreshTicks : k \in 0..MaxRefreshes }

RefreshInit == Init /\ program = "pushport"

RefreshTick ==
    /\ Settled /\ Started
    /\ \E t \in RefreshClockInstants : t > now /\ now' = t
    /\ UNCHANGED <<trains_cache, listenerVars, queryVars, last_snapshot_load, program, lockVars, calc, connVars, bootVars>>

RefreshNext ==
    \/ RefreshTick
    \/ Startup
    \/ RefreshTrainsPeriodically
    \/ \E b \in Bodies : OnMessage(b)
    \/ ParseSchedule
    \/ WriteSchedule
    \/ CheckStatus
    \/ WriteStatus
    \/ OnMessageReturn
    \/ QueryStart
    \/ QueryRun
    \/ QueryReturn

RefreshSpec == RefreshInit /\ [][RefreshNext]_vars

---------------------------------------------------------------------------
(* The midpoint of lines 512-515 on its own, for every pair of bracket     *)
(* instants.  parse_time returns whole minutes (second=0, microsecond=0),  *)
(* today's or tomorrow's.                                                  *)

MaxBracketMinutes == 11

BracketInstants ==
    { BootInstant + m * TicksPerMinute + d * TicksPerDay : m \in 0..MaxBracketMinutes, d \in {0, 1} }

AtRest ==
    /\ trains_cache = << >>
    /\ lpc = "idle" /\ body = NoBody /\ frame = << >> /\ idx = 0
    /\ pending = NoTrain /\ locq = << >> /\ outcome = "none"
    /\ qpc = "idle" /\ qnow = NoTime /\ to_remove = << >> /\ response = NoResponse
    /\ last_snapshot_load = NoTime
    /\ cache_lock = "free" /\ endpoint = NoEndpoint
    /\ bpc = "idle" /\ journeys = << >> /\ bidx = 0 /\ start = NoTime
    /\ self_trains = << >> /\ passing_trains = << >>

MidpointInit ==
    /\ program = "bootstrap"
    /\ now = BootInstant
    /\ AtRest
    /\ creds = TRUE
    /\ ConnAtRest
    /\ \E a \in BracketInstants, b \in BracketInstants :
          calc = [fn |-> "midpoint", before_time |-> a, after_time |-> b, pass_time |-> NoTime]

ComputeMidpoint ==
    /\ calc.fn = "midpoint" /\ calc.pass_time = NoTime
    /\ calc' = [calc EXCEPT !.pass_time = Midpoint(calc.before_time, calc.after_time)]
    /\ UNCHANGED <<now, trains_cache, listenerVars, queryVars, last_snapshot_load, program, lockVars, connVars, bootVars>>

MidpointNext == ComputeMidpoint

MidpointSpec == MidpointInit /\ [][MidpointNext]_vars

---------------------------------------------------------------------------
(* The tracker and its connection: the connect thread, the broker and the  *)
(* frames of one schedule.  time.sleep returns, and a call of connect      *)
(* returns or raises, so the thread's steps are weakly fair; whether the   *)
(* broker accepts or drops the session is up to the broker.                *)

ConnectInit ==
    /\ program = "pushport"
    /\ now = StartInstant
    /\ AtRest
    /\ calc = NoCalc
    /\ creds \in BOOLEAN
    /\ ConnAtRest

ConnectBodies ==
    { Body("gzip_xml", << ScheduleElem("R1", RoydonTimes[3]) >>),
      Body("gzip_xml", << ScheduleElem("R2", RoydonTimes[1]) >>),
      Body("not_gzip", << ScheduleElem("R1", RoydonTimes[3]) >>) }

ConnectEnd == ConnectSucceeds \/ ConnectFails

ConnectNext ==
    \/ Startup
    \/ StartDarwinThread
    \/ ConnectBegin
    \/ ConnectSucceeds
    \/ ConnectFails
    \/ LoopConnected
    \/ Wake
    \/ OnDisconnected
    \/ \E b \in ConnectBodies : Deliver(b)
    \/ WriteSchedule
    \/ OnMessageReturn

ConnectSpec ==
    /\ ConnectInit
    /\ [][ConnectNext]_vars
    /\ WF_vars(ConnectBegin)
    /\ WF_vars(ConnectEnd)
    /\ WF_vars(Wake)

---------------------------------------------------------------------------
(* The tracker with cache_lock in view: the listener fed a schedule and a  *)
(* status, a query whose locked section takes several steps, and the       *)
(* health and status endpoints.                                            *)

LockInit == Init /\ program = "pushport"

LockBodies ==
    { Body("gzip_xml", << ScheduleElem("R1", RoydonTimes[3]) >>),
      Body("gzip_xml", << ScheduleElem("R2", RoydonTimes[1]) >>),
      Body("gzip_xml", << StatusElem("R1", TB, Absent) >>),
      Body("gzip_xml", << ScheduleElem("R2", RoydonTimes[3]), StatusElem("R2", TB, Absent) >>) }

LockNext ==
    \/ Startup
    \/ \E b \in LockBodies : OnMessage(b)
    \/ WriteSchedule
    \/ CheckStatus
    \/ WriteStatus
    \/ OnMessageReturn
    \/ QueryStart
    \/ QueryAcquire
    \/ QueryEvict
    \/ QueryCollect
    \/ QueryReturn
    \/ Health
    \/ StatusCount
    \/ StatusTotal
    \/ EndpointReturn

LockSpec == LockInit /\ [][LockNext]_vars

---------------------------------------------------------------------------
(* Properties of the query *)

\* the step is the locked section of get_realtime_trains
QueryRunStep == qpc = "locked" /\ qpc' = "responded"

\* the step is the locked section of process_train_status for one location
WriteStatusStep == lpc = "status_write" /\ locq' = Tail(locq)

\* the step is the locked section of process_schedules
WriteScheduleStep == lpc = "sched_write" /\ pending' = NoTrain

InstantOf(train) == fromisoformat(train.parsed_time)

\* C1: every train a query returns has an instant t with
\* now - 5 minutes < t < now + 90 minutes, now being the query's own now.
C1_ReturnedInWindow ==
    qpc = "responded" =>
        \A i \in 1..Len(response.trains) :
            /\ HasInstant(response.trains[i])
            /\ qnow - GraceTicks < InstantOf(response.trains[i])
            /\ InstantOf(response.trains[i]) < qnow + HorizonTicks

\* a query has returned a train while the cache holds one at or beyond the horizon
C1_Witness ==
    /\ qpc = "responded"
    /\ response.count >= 1
    /\ \E i \in 1..Len(trains_cache) :
           /\ HasInstant(trains_cache[i])
           /\ InstantOf(trains_cache[i]) >= qnow + HorizonTicks

\* C2: the locked section of a query leaves no entry whose instant is older
\* than the query's now minus five minutes, and every entry it removed was one.
C2_NoStaleAfterQuery ==
    [][QueryRunStep =>
         /\ \A i \in 1..Len(trains_cache') :
                HasInstant(trains_cache'[i]) =>
                    InstantOf(trains_cache'[i]) >= qnow - GraceTicks
         /\ \A i \in 1..Len(trains_cache) :
                (HasInstant(trains_cache[i])
                 /\ InstantOf(trains_cache[i]) < qnow - GraceTicks)
                    => /\ trains_cache[i].rid \notin Keys(trains_cache')
                       /\ \E k \in 1..Len(to_remove') : to_remove'[k] = trains_cache[i].rid
      ]_vars

\* a query has just evicted an entry
C2_Witness == qpc = "responded" /\ to_remove # << >>

\* C3 as claimed: the list holds every cache entry that has an instant before
\* the horizon, each once, in ascending order, and count is its length.
C3_ReturnsAllRemaining ==
    qpc = "responded" =>
        /\ \A i \in 1..Len(trains_cache) :
               (HasInstant(trains_cache[i])
                /\ InstantOf(trains_cache[i]) < qnow + HorizonTicks)
                   => Cardinality({ k \in 1..Len(response.trains) :
                                        response.trains[k] = trains_cache[i] }) = 1
        /\ \A j, k \in 1..Len(response.trains) :
               j < k => InstantOf(response.trains[j]) <= InstantOf(response.trains[k])
        /\ response.count = Len(response.trains)

---------------------------------------------------------------------------
(* Properties of the listener *)

\* the fields a schedule message determines, the resolved instant apart
SameSchedule(a, b) ==
    /\ a.rid = b.rid /\ a.uid = b.uid /\ a.ssd = b.ssd /\ a.toc = b.toc
    /\ a.type = b.type /\ a.time = b.time
    /\ a.origin = b.origin /\ a.destination = b.destination

Untouched(train) == train.eta = Absent /\ ~train.delayed /\ ~train.actual

\* C4 as claimed: writing a schedule whose run is cached as the same schedule
\* wrote it leaves that entry, its resolved instant included, as it was.
C4_ReingestIdentical ==
    [][(/\ WriteScheduleStep
        /\ HasKey(trains_cache, pending.rid)
        /\ SameSchedule(Get(trains_cache, pending.rid), pending)
        /\ Untouched(Get(trains_cache, pending.rid)))
          => /\ Len(trains_cache') = Len(trains_cache)
             /\ Get(trains_cache', pending.rid) = Get(trains_cache, pending.rid)
      ]_vars

\* C5: the locked section of a status update never changes the key set, and
\* for a run that is not in the cache at that moment it changes nothing.
C5_StatusNeverCreates ==
    [][WriteStatusStep =>
         /\ Keys(trains_cache') = Keys(trains_cache)
         /\ Len(trains_cache') = Len(trains_cache)
         /\ ~HasKey(trains_cache, frame[idx].rid) =>
                (trains_cache' = trains_cache /\ outcome' = "status_gone")
      ]_vars

\* a status passed the membership test, its run was evicted, and its write
\* then found the run gone
C5_Witness == outcome = "status_gone" /\ ~HasKey(trains_cache, frame[1].rid)

\* the attribute is there and holds a value
HasValue(x) == x # Absent /\ x # EmptyStr

\* the schedule or journey lists the observation point
Calls(el) == \E i \in 1..Len(el.locs) : el.locs[i].tpl = ROYDON_TIPLOC

\* its location at the observation point
AtObservationPoint(el) ==
    el.locs[CHOOSE i \in 1..Len(el.locs) : el.locs[i].tpl = ROYDON_TIPLOC]

HasPublicTime(loc) == HasValue(loc.pta) \/ HasValue(loc.ptd)

\* the location holds a value in none of the five time fields
Timeless(loc) ==
    /\ ~HasValue(loc.pta) /\ ~HasValue(loc.ptd)
    /\ ~HasValue(loc.wtp) /\ ~HasValue(loc.wta) /\ ~HasValue(loc.wtd)

\* the step is the first loop of parse_timetable on journey bidx
DirectStepTaken == bpc = "direct" /\ (bidx' = bidx + 1 \/ bpc' = "infer")

\* the step is the loop of find_passing_trains_by_inference on journey bidx
InferStepTaken == bpc = "infer" /\ (bidx' = bidx + 1 \/ bpc' = "extend")

\* the listener takes up a document
FrameTaken == lpc = "idle" /\ lpc' # "idle"

\* what the step appended to a list
Appended(before, after) == SubSeq(after, Len(before) + 1, Len(after))

EveryTrainTimed ==
    /\ \A i \in 1..Len(trains_cache) : HasValue(trains_cache[i].time)
    /\ \A i \in 1..Len(self_trains) : HasValue(self_trains[i].time)
    /\ \A i \in 1..Len(passing_trains) : HasValue(passing_trains[i].time)

\* C6: every train in the cache, in the bootstrap's result and in its list of
\* inferred trains has a time that is neither None nor empty; a schedule is
\* written only from a location with a value in one of the five time fields,
\* a document whose schedules all lack them leaves the cache as it was, and a
\* journey whose location lacks them adds no train to either list.
C6_EveryTrainTimed ==
    [][/\ EveryTrainTimed'
       /\ WriteScheduleStep => ~Timeless(AtObservationPoint(frame[idx]))
       /\ (FrameTaken /\ \A i \in 1..Len(frame') :
                             /\ IsScheduleTag(frame'[i].tag)
                             /\ Calls(frame'[i]) /\ Timeless(AtObservationPoint(frame'[i])))
             => (lpc' = "done" /\ trains_cache' = trains_cache)
       /\ (DirectStepTaken /\ Calls(journeys[bidx])
                           /\ Timeless(AtObservationPoint(journeys[bidx])))
             => self_trains' = self_trains
       /\ (InferStepTaken /\ Calls(journeys[bidx])
                          /\ Timeless(AtObservationPoint(journeys[bidx])))
             => passing_trains' = passing_trains
      ]_vars

\* a schedule without any time at the observation point has gone through the
\* listener and the cache, which holds another run, is as it was
C6_Witness ==
    /\ lpc = "done"
    /\ Len(frame) = 1 /\ IsScheduleTag(frame[1].tag)
    /\ Calls(frame[1]) /\ Timeless(AtObservationPoint(frame[1]))
    /\ trains_cache # << >>
    /\ ~HasKey(trains_cache, frame[1].rid)

\* the train made from a location with a public time
IsStopping(train, loc) ==
    /\ train.type = "stopping"
    /\ train.time = IF HasValue(loc.ptd) THEN loc.ptd ELSE loc.pta

\* C7: a schedule (real-time feed) or journey (timetable) whose location at the
\* observation point has a public arrival or departure gives a train of type
\* stopping whose time is the public departure if there is one, else the
\* public arrival, whatever working times the location has.
C7_PublicMeansStopping ==
    [][/\ (WriteScheduleStep /\ HasPublicTime(AtObservationPoint(frame[idx])))
             => IsStopping(Get(trains_cache', frame[idx].rid), AtObservationPoint(frame[idx]))
       /\ (DirectStepTaken /\ Calls(journeys[bidx])
                           /\ HasPublicTime(AtObservationPoint(journeys[bidx])))
             => \A i \in 1..Len(Appended(self_trains, self_trains')) :
                   IsStopping(Appended(self_trains, self_trains')[i],
                              AtObservationPoint(journeys[bidx]))
      ]_vars

\* the timetable's journey with all five fields gave a stopping train at its
\* public departure
C7_Witness ==
    /\ bpc = "infer"
    /\ journeys = << CallingJourney("J1", 0, TimesOf(TimeFields)) >>
    /\ Len(self_trains) = 1
    /\ self_trains[1].type = "stopping"
    /\ self_trains[1].time = FieldTime.ptd

\* the train made from a location with a working pass and no public time
IsPassing(train, loc) == train.type = "passing" /\ train.time = loc.wtp

\* C8: a schedule or journey whose location at the observation point has no
\* public time but a working pass gives a train of type passing at the
\* working pass, with or without working arrival and departure.
C8_WorkingPassMeansPassing ==
    [][/\ (WriteScheduleStep /\ ~HasPublicTime(AtObservationPoint(frame[idx]))
                             /\ HasValue(AtObservationPoint(frame[idx]).wtp))
             => IsPassing(Get(trains_cache', frame[idx].rid), AtObservationPoint(frame[idx]))
       /\ (DirectStepTaken /\ Calls(journeys[bidx])
                           /\ ~HasPublicTime(AtObservationPoint(journeys[bidx]))
                           /\ HasValue(AtObservationPoint(journeys[bidx]).wtp))
             => \A i \in 1..Len(Appended(self_trains, self_trains')) :
                   IsPassing(Appended(self_trains, self_trains')[i],
                             AtObservationPoint(journeys[bidx]))
      ]_vars

\* the feed's schedule with a working pass and other working times, and no
\* public time, is in the cache as passing at the working pass
C8_Witness ==
    /\ lpc = "done" /\ outcome = "ingested"
    /\ Len(frame) = 1
    /\ HasValue(AtObservationPoint(frame[1]).wta)
    /\ HasValue(AtObservationPoint(frame[1]).wtd)
    /\ AtObservationPoint(frame[1]).wtp # AtObservationPoint(frame[1]).wtd
    /\ HasKey(trains_cache, frame[1].rid)
    /\ IsPassing(Get(trains_cache, frame[1].rid), AtObservationPoint(frame[1]))

\* C9: for a cached run an actual time wins over an estimated time and marks
\* the entry actual; the estimated time is used only without an actual time.
C9_ActualPrecedence ==
    [][(WriteStatusStep /\ HasKey(trains_cache, frame[idx].rid)) =>
         LET loc == Head(locq)
             old == Get(trains_cache, frame[idx].rid)
             new == Get(trains_cache', frame[idx].rid)
         IN /\ Truthy(loc.at) => (new.eta = loc.at /\ new.actual)
            /\ (~Truthy(loc.at) /\ Truthy(loc.et)) => new.eta = loc.et
            /\ (~Truthy(loc.at) /\ ~Truthy(loc.et)) => new = old
      ]_vars

\* a status carrying both an actual and an estimated time has been applied
C9_Witness ==
    /\ lpc = "done" /\ outcome = "status_at"
    /\ \E k \in 1..Len(frame[1].locs) :
           /\ frame[1].locs[k].tpl = ROYDON_TIPLOC
           /\ Truthy(frame[1].locs[k].et) /\ Truthy(frame[1].locs[k].at)
           /\ Get(trains_cache, frame[1].rid).eta = frame[1].locs[k].at
           /\ Get(trains_cache, frame[1].rid).eta # frame[1].locs[k].et

\* C10: a status with only an estimated time E sets eta to E and delayed to
\* (E # time), whatever delayed was.
C10_DelayedFromEstimate ==
    [][(/\ WriteStatusStep
        /\ HasKey(trains_cache, frame[idx].rid)
        /\ ~Truthy(Head(locq).at) /\ Truthy(Head(locq).et)) =>
         LET old == Get(trains_cache, frame[idx].rid)
             new == Get(trains_cache', frame[idx].rid)
         IN /\ new.eta = Head(locq).et
            /\ new.delayed = (Head(locq).et # old.time)
            /\ new.time = old.time
      ]_vars

\* an estimate equal to the scheduled time has cleared a delayed flag's cause:
\* the entry shows eta = time and delayed false after an estimated-only status
C10_Witness ==
    /\ lpc = "done" /\ outcome = "status_et"
    /\ Get(trains_cache, frame[1].rid).eta = Get(trains_cache, frame[1].rid).time
    /\ ~Get(trains_cache, frame[1].rid).delayed
    /\ Get(trains_cache, frame[1].rid).actual

\* the listener's variables between two calls of on_message
ListenerAtRest ==
    /\ lpc = "idle" /\ body = NoBody /\ frame = NoRoot /\ idx = 0
    /\ pending = NoTrain /\ locq = << >> /\ outcome = "none"

\* C11: on_message given a frame whose body is absent, is a str holding
\* U+FFFD, is bytes that are not gzip, or is gzip of a malformed document,
\* goes straight to its return with trains_cache as it was; and when
\* on_message returns the listener keeps nothing of the frame, so the next
\* frame is handled as a first one is.
C11_DroppedFrameChangesNothing ==
    [][/\ (FrameTaken /\ body'.kind \in {"absent", "str_replacement", "not_gzip", "gzip_malformed"})
             => (lpc' = "done" /\ trains_cache' = trains_cache /\ frame' = NoRoot)
       /\ (lpc = "done" /\ lpc' = "idle") => (ListenerAtRest' /\ trains_cache' = trains_cache)
      ]_vars

\* a gzip frame with a malformed document was dropped while the cache held a run
C11_Witness ==
    /\ lpc = "done" /\ body.kind = "gzip_malformed"
    /\ body.text # << >>
    /\ trains_cache # << >>

\* a schedule element with a run identifier and a time at the observation point
ValidSchedule(el) ==
    /\ IsScheduleTag(el.tag)
    /\ el.rid # "" /\ el.rid # PyNone
    /\ Calls(el) /\ ~Timeless(AtObservationPoint(el))

\* the first valid schedule element of doc from index i on, 0 if there is none
FirstValidFrom(doc, i) ==
    IF \E j \in i..Len(doc) : ValidSchedule(doc[j])
    THEN CHOOSE j \in i..Len(doc) :
             ValidSchedule(doc[j]) /\ \A k \in i..(j - 1) : ~ValidSchedule(doc[k])
    ELSE 0

\* hh:mm on the day the bootstrap started
TodayAt(hm) == DateOf(start) * TicksPerDay + (hm[1] * 60 + hm[2]) * TicksPerMinute

\* a journey of today whose location at the observation point has a time, all
\* its times being times of day within the bootstrap's window
ValidJourney(j) ==
    /\ j.ssd \in {NoDate, DateOf(start)}
    /\ Calls(j) /\ ~Timeless(AtObservationPoint(j))
    /\ \A f \in TimeFields :
          LET hm == AtObservationPoint(j)[f]
          IN HasValue(hm) =>
                /\ Len(hm) >= 2 /\ hm[1] \in 0..23 /\ hm[2] \in 0..59
                /\ start <= TodayAt(hm) /\ TodayAt(hm) <= start + CutoffTicks

\* C12: the listener goes through the valid schedules of a document in
\* order and writes each of them, whatever invalid schedules (empty run
\* identifier, no time at the observation point) stand before, between or
\* after them; the bootstrap's first loop visits every journey of the
\* timetable and every valid one adds its train, whatever the others are.
C12_SkippedAlone ==
    [][/\ FrameTaken =>
             IF FirstValidFrom(frame', 1) # 0
             THEN lpc' = "sched_write" /\ idx' = FirstValidFrom(frame', 1)
             ELSE lpc' # "sched_write"
       /\ (lpc = "parse" /\ lpc' # "parse") =>
             (lpc' = "sched_write" /\ idx' = idx /\ ValidSchedule(frame[idx]))
       /\ WriteScheduleStep =>
             /\ HasKey(trains_cache', frame[idx].rid)
             /\ IF FirstValidFrom(frame, idx + 1) # 0
                THEN lpc' = "parse" /\ idx' = FirstValidFrom(frame, idx + 1)
                ELSE lpc' # "parse"
       /\ DirectStepTaken =>
             /\ bidx < Len(journeys) => (bidx' = bidx + 1 /\ bpc' = "direct")
             /\ ValidJourney(journeys[bidx]) =>
                   /\ Len(Appended(self_trains, self_trains')) = 1
                   /\ Appended(self_trains, self_trains')[1].rid \in
                         {journeys[bidx].rid, "timetable_" \o ToString(bidx)}
      ]_vars

\* a document with a schedule without times between two valid schedules has
\* been processed: both valid runs are in the cache, the other is not
C12_Witness ==
    /\ lpc = "done" /\ Len(frame) = 3
    /\ ValidSchedule(frame[1]) /\ ~ValidSchedule(frame[2]) /\ ValidSchedule(frame[3])
    /\ HasKey(trains_cache, frame[1].rid) /\ HasKey(trains_cache, frame[3].rid)
    /\ ~HasKey(trains_cache, frame[2].rid)

\* C13: the pass time before calibration is the same whichever of the two
\* bracket instants is given as before and whichever as after, it lies between
\* them and it is as far from the one as from the other.
C13_MidpointSymmetric ==
    (calc.fn = "midpoint" /\ calc.pass_time # NoTime) =>
        LET a == calc.before_time
            b == calc.after_time
            lo == IF a < b THEN a ELSE b
            hi == IF a < b THEN b ELSE a
        IN /\ calc.pass_time = Midpoint(b, a)
           /\ lo <= calc.pass_time /\ calc.pass_time <= hi
           /\ calc.pass_time - lo = hi - calc.pass_time

\* the midpoint of brackets given latest first, an odd number of minutes apart
C13_Witness ==
    /\ calc.fn = "midpoint" /\ calc.pass_time # NoTime
    /\ calc.before_time > calc.after_time
    /\ ((calc.before_time - calc.after_time) \div TicksPerMinute) % 2 = 1

\* the location of journey j with code tpl
LocationAt(j, tpl) == j.locs[CHOOSE i \in 1..Len(j.locs) : j.locs[i].tpl = tpl]

HasLocation(j, tpl) == \E i \in 1..Len(j.locs) : j.locs[i].tpl = tpl

\* a journey of today from Liverpool Street to Stansted Airport that does not
\* list the observation point and has a departure from Cheshunt and an
\* arrival at Bishops Stortford, both times of day of today for parse_time
StanstedOutbound(j) ==
    /\ j.locs # << >>
    /\ j.locs[1].tpl = "LIVST" /\ j.locs[Len(j.locs)].tpl = "STANAIR"
    /\ j.ssd \in {NoDate, DateOf(start)}
    /\ ~Calls(j)
    /\ HasLocation(j, "CHESHNT") /\ HasValue(LocationAt(j, "CHESHNT").ptd)
    /\ HasLocation(j, "BSHPSFD") /\ HasValue(LocationAt(j, "BSHPSFD").pta)
    /\ TodayAt(LocationAt(j, "CHESHNT").ptd) >= now' - 60 * TicksPerMinute
    /\ TodayAt(LocationAt(j, "BSHPSFD").pta) >= now' - 60 * TicksPerMinute

\* C14: for such a journey the inference step adds exactly one record of type
\* passing whose instant is the midpoint of the two bracket times less 3
\* minutes when that lies within the window, and none otherwise; with
\* brackets 13:50 and 14:10 its time is 13:57.
C14_StanstedOutboundPassTime ==
    [][(InferStepTaken /\ StanstedOutbound(journeys[bidx])) =>
         LET a == TodayAt(LocationAt(journeys[bidx], "CHESHNT").ptd)
             b == TodayAt(LocationAt(journeys[bidx], "BSHPSFD").pta)
             p == (a + b) \div 2 - 3 * TicksPerMinute
             new == Appended(passing_trains, passing_trains')
         IN IF start <= p /\ p <= start + CutoffTicks
            THEN /\ Len(new) = 1
                 /\ new[1].type = "passing"
                 /\ new[1].parsed_time = isoformat(p)
                 /\ new[1].time = << new[1].parsed_time[2], new[1].parsed_time[3] >>
                 /\ (LocationAt(journeys[bidx], "CHESHNT").ptd = <<13, 50>>
                     /\ LocationAt(journeys[bidx], "BSHPSFD").pta = <<14, 10>>)
                       => new[1].time = <<13, 57>>
            ELSE new = << >>
      ]_vars

\* the bootstrap has returned one train, inferred at 13:57 from brackets
\* 13:50 and 14:10
C14_Witness ==
    /\ bpc = "done" /\ Len(journeys) = 1
    /\ HasLocation(journeys[1], "CHESHNT") /\ LocationAt(journeys[1], "CHESHNT").ptd = <<13, 50>>
    /\ HasLocation(journeys[1], "BSHPSFD") /\ LocationAt(journeys[1], "BSHPSFD").pta = <<14, 10>>
    /\ Len(self_trains) = 1
    /\ self_trains[1].type = "passing" /\ self_trains[1].time = <<13, 57>>

\* the step is the end of find_passing_trains_by_inference and of parse_timetable
ExtendStepTaken == bpc = "extend" /\ bpc' = "done"

\* C15: what inference returns holds every identifier of its candidate
\* records once, in the order of their first occurrence, and for each the
\* first candidate record with that identifier.
C15_FirstOfEachIdentifier ==
    [][ExtendStepTaken =>
         LET out == Appended(self_trains, self_trains')
         IN /\ \A i, k \in 1..Len(out) : out[i].rid = out[k].rid => i = k
            /\ \A i \in 1..Len(passing_trains) :
                  \E k \in 1..Len(out) : out[k].rid = passing_trains[i].rid
            /\ \A k \in 1..Len(out) :
                  \E i \in 1..Len(passing_trains) :
                     /\ out[k] = passing_trains[i]
                     /\ \A h \in 1..(i - 1) : passing_trains[h].rid # passing_trains[i].rid
      ]_vars

\* two journeys gave two different records with one identifier, and the
\* bootstrap returned the first of them only
C15_Witness ==
    /\ bpc = "done"
    /\ Len(passing_trains) = 2
    /\ passing_trains[1].rid = passing_trains[2].rid
    /\ passing_trains[1].time # passing_trains[2].time
    /\ self_trains = << passing_trains[1] >>

\* C16 as claimed: no train that inference returns has the identifier of a
\* train of the first loop of the same parse.
C16_InferredIdDistinct ==
    [][ExtendStepTaken =>
         \A k \in 1..Len(Appended(self_trains, self_trains')) :
            \A i \in 1..Len(self_trains) :
               Appended(self_trains, self_trains')[k].rid # self_trains[i].rid
      ]_vars

\* C17: the inference step adds no record for a journey that lists the
\* observation point, and the first loop adds no train for a journey that
\* does not: no journey gives a train in both.
C17_NoInferenceWhenListed ==
    [][/\ (InferStepTaken /\ Calls(journeys[bidx])) => passing_trains' = passing_trains
       /\ (DirectStepTaken /\ ~Calls(journeys[bidx])) => self_trains' = self_trains
      ]_vars

\* a journey from Liverpool Street to Stansted Airport with both brackets and
\* a working pass at the observation point gave its direct train and no
\* inferred record
C17_Witness ==
    /\ bpc = "done" /\ Len(journeys) = 1
    /\ Calls(journeys[1])
    /\ journeys[1].locs[1].tpl = "LIVST"
    /\ HasLocation(journeys[1], "CHESHNT") /\ HasLocation(journeys[1], "BSHPSFD")
    /\ Len(self_trains) = 1 /\ self_trains[1].time = AtObservationPoint(journeys[1]).wtp
    /\ passing_trains = << >>

\* the instants of the window of a parse that started at instant t
InBootWindow(train) ==
    /\ train.parsed_time # IsoNone
    /\ start <= fromisoformat(train.parsed_time)
    /\ fromisoformat(train.parsed_time) <= start + 2 * 60 * TicksPerMinute

\* C18: every train of the bootstrap's result and every inferred record has
\* an instant, after calibration for the inferred ones, from the parse's now
\* to two hours later, both included.
C18_BulkWithinHorizon ==
    /\ \A i \in 1..Len(self_trains) : InBootWindow(self_trains[i])
    /\ \A i \in 1..Len(passing_trains) : InBootWindow(passing_trains[i])

\* the bootstrap returned a train at the very end of its window
C18_Witness ==
    /\ bpc = "done" /\ Len(self_trains) = 1
    /\ fromisoformat(self_trains[1].parsed_time) = start + 2 * 60 * TicksPerMinute

\* the step is the call of parse_time in process_schedules
ParseStepTaken == lpc # "sched_write" /\ lpc' = "sched_write"

\* hh:mm on the day of instant t
SameDayAt(t, hm) == (t \div TicksPerDay) * TicksPerDay + (hm[1] * 60 + hm[2]) * TicksPerMinute

\* C19 as claimed, with a grace window of one minute, the shortest a window
\* told in minutes can be: a time of day that is later than now, or earlier
\* by less than a minute, is resolved on today's date, by the listener's
\* parse_time and by the bootstrap's.
C19_JustPassedIsToday ==
    [][/\ (ParseStepTaken /\ pending'.parsed_time # IsoNone
                          /\ SameDayAt(now, pending'.time) > now - TicksPerMinute)
             => fromisoformat(pending'.parsed_time) = SameDayAt(now, pending'.time)
       /\ DirectStepTaken =>
             \A i \in 1..Len(Appended(self_trains, self_trains')) :
                LET train == Appended(self_trains, self_trains')[i]
                IN SameDayAt(now, train.time) > now - TicksPerMinute
                      => fromisoformat(train.parsed_time) = SameDayAt(now, train.time)
      ]_vars

\* the step is a call of load_initial_trains, at startup or by the refresh thread
LoadStepTaken == last_snapshot_load' # last_snapshot_load

\* C20 as claimed: when load_initial_trains has run, every train that the
\* bulk parse yields for the timetable is in the cache under its identifier.
C20_BootstrapFillsCache ==
    [][LoadStepTaken =>
         \A xml \in Timetables :
            \A i \in 1..Len(parse_timetable(xml, now)) :
               HasKey(trains_cache', parse_timetable(xml, now)[i].rid)
      ]_vars

\* the Journey elements parse_timetable holds: the list of line 169, which
\* self.all_journeys keeps after the method has returned
JourneysRetained == Len(journeys)

\* C21 as claimed: at any moment of a parse the parser holds no more than the
\* one Journey that is being handled, however many the document has.
C21_OneJourneyRetained == JourneysRetained <= 1

---------------------------------------------------------------------------
(* Properties of the connection *)

\* the step is a call of conn.connect
ConnectStepTaken == cpc = "loop" /\ cpc' = "connecting"

\* the step is an attempt that raises
FailureStepTaken == cpc = "connecting" /\ link' = "down"

\* the step is on_disconnected
DisconnectStepTaken == link = "up" /\ link' = "down"

\* the session is down and no attempt is being made
DownAndWaiting == link = "down" /\ cpc \in {"loop", "sleeping"}

\* C22: with credentials connect_to_darwin never returns; an attempt that
\* raises is followed by a sleep of 30 seconds, however many have raised
\* before, and the only other sleep is the 10 seconds of the loop; every
\* attempt carries the client id and subscription name of the one before;
\* on_disconnected leaves trains_cache as it was; and whenever the session is
\* down and the thread is not in an attempt, it makes one later.
C22_ReconnectLoop ==
    /\ [](creds => cpc # "returned")
    /\ [](sleep_for \in {0, PollSeconds, RetrySeconds})
    /\ [][/\ FailureStepTaken =>
                (cpc' = "sleeping" /\ sleep_for' = RetrySeconds /\ ~darwin_connected')
          /\ (cpc = "sleeping" /\ cpc' # "sleeping") => cpc' = "loop"
          /\ ConnectStepTaken =>
                /\ attempt'.client_id = DARWIN_CLIENT_ID
                /\ attempt'.subscription = DARWIN_CLIENT_ID
                /\ (attempt # NoAttempt => attempt' = attempt)
          /\ DisconnectStepTaken => (trains_cache' = trains_cache /\ ~darwin_connected')
         ]_vars
    /\ (DownAndWaiting ~> cpc = "connecting")

\* after attempts that raised and a session that was then lost while the
\* cache held a run, the thread is connecting again
C22_Witness ==
    /\ cpc = "connecting"
    /\ down_cause = "disconnected"
    /\ failures = MaxFailures
    /\ trains_cache # << >>

\* the journey has a service date and it is not the day the parse started
OnAnotherDate(j) == j.ssd # NoDate /\ j.ssd # DateOf(start)

\* C23: every train of the bootstrap's result and every inferred record
\* carries the date of the day the parse started as its service date, and a
\* journey with another service date adds nothing in either loop.
C23_OnlyTodaysJourneys ==
    [][/\ \A i \in 1..Len(self_trains') : self_trains'[i].ssd = DateOf(start')
       /\ \A i \in 1..Len(passing_trains') : passing_trains'[i].ssd = DateOf(start')
       /\ (DirectStepTaken /\ OnAnotherDate(journeys[bidx])) => self_trains' = self_trains
       /\ (InferStepTaken /\ OnAnotherDate(journeys[bidx])) => passing_trains' = passing_trains
      ]_vars

\* a journey from Liverpool Street to Stansted Airport with brackets 13:50
\* and 14:10, of tomorrow's service date, has gone through both loops and
\* the result is empty
C23_Witness ==
    /\ bpc = "done"
    /\ journeys = << StanstedJourney("J1", 1, TEarly, TLate) >>
    /\ OnAnotherDate(journeys[1])
    /\ self_trains = << >> /\ passing_trains = << >>

---------------------------------------------------------------------------
(* Properties of the lock *)

\* the step evaluates `rid not in trains_cache` of line 214
MembershipTestTaken ==
    \/ lpc = "status_check" /\ <<lpc, idx>>' # <<lpc, idx>>
    \/ FrameTaken /\ SchedulePosition(frame', 1).pc = "status_check"

\* the step evaluates len(trains_cache) for /health or /api/status
EndpointReadTaken == endpoint.pc # "done" /\ endpoint'.pc = "done"

\* C24 as claimed: no step of the listener or of the health and status
\* endpoints reads or writes trains_cache while the query is inside its
\* locked section.
C24_CacheAccessSerialized ==
    [][(\/ MembershipTestTaken
        \/ WriteScheduleStep
        \/ WriteStatusStep
        \/ EndpointReadTaken
        \/ endpoint'.pc = "counted" /\ endpoint.pc = "idle")
          => cache_lock = "free"
      ]_vars

---------------------------------------------------------------------------
(* Properties of the cache's key set *)

\* the entries of cache other than that of rid, in order
Others(cache, rid) == SelectSeq(cache, LAMBDA train : train.rid # rid)

\* C25: a step that is not the locked section of a query removes no key; a
\* schedule write adds or overwrites the entry of its own run and leaves the
\* others as they were; a status write leaves the key set as it was and the
\* other entries too; load_initial_trains leaves the cache as it was; and a
\* query removes only entries whose instant is more than five minutes before
\* its now, leaving every other entry as it was.
C25_OnlyQueryRemoves ==
    [][/\ ~QueryRunStep => Keys(trains_cache) \subseteq Keys(trains_cache')
       /\ WriteScheduleStep =>
             /\ Keys(trains_cache') = Keys(trains_cache) \cup {pending.rid}
             /\ Others(trains_cache', pending.rid) = Others(trains_cache, pending.rid)
       /\ WriteStatusStep =>
             /\ Keys(trains_cache') = Keys(trains_cache)
             /\ Others(trains_cache', frame[idx].rid) = Others(trains_cache, frame[idx].rid)
       /\ LoadStepTaken => trains_cache' = trains_cache
       /\ QueryRunStep =>
             /\ \A i \in 1..Len(trains_cache) :
                   \/ \E k \in 1..Len(trains_cache') : trains_cache'[k] = trains_cache[i]
                   \/ /\ HasInstant(trains_cache[i])
                      /\ InstantOf(trains_cache[i]) < qnow - GraceTicks
             /\ \A k \in 1..Len(trains_cache') :
                   \E i \in 1..Len(trains_cache) : trains_cache[i] = trains_cache'[k]
      ]_vars

\* after a refresh, a query has removed a run and kept another, which a
\* status had updated
C25_Witness ==
    /\ qpc = "responded"
    /\ to_remove # << >>
    /\ last_snapshot_load > StartInstant
    /\ \E i \in 1..Len(trains_cache) : trains_cache[i].eta # Absent

---------------------------------------------------------------------------
(* Properties of a frame with a schedule and a status *)

\* the Location of a TS element at the observation point
StatusAtObservationPoint(el) ==
    el.locs[CHOOSE i \in 1..Len(el.locs) :
                el.locs[i].tag = "Location" /\ el.locs[i].tpl = ROYDON_TIPLOC]

\* elements s and t of doc are a valid schedule and a status of the same
\* run, the status with an estimated time and no actual time
ScheduleWithEstimate(doc, s, t) ==
    /\ ValidSchedule(doc[s])
    /\ IsStatusTag(doc[t].tag) /\ doc[t].rid = doc[s].rid
    /\ MatchingLocations(doc[t]) # << >>
    /\ HasValue(StatusAtObservationPoint(doc[t]).et)
    /\ ~HasValue(StatusAtObservationPoint(doc[t]).at)

\* C26: when the listener is through with a frame that carries a schedule
\* and a status with an estimated time for the same run, whichever comes
\* first in the document, the run's entry, if the cache holds one, has the
\* status's time as its estimate; and while the listener is at that status,
\* the last thing it did was to write a schedule or to apply the status.
C26_ScheduleThenStatus ==
    /\ lpc = "done" =>
          \A s \in 1..Len(frame) : \A t \in 1..Len(frame) :
             (ScheduleWithEstimate(frame, s, t) /\ HasKey(trains_cache, frame[s].rid))
                => Get(trains_cache, frame[s].rid).eta = StatusAtObservationPoint(frame[t]).et
    /\ lpc \in {"status_check", "status_write"} =>
          \A s \in 1..Len(frame) : \A t \in 1..Len(frame) :
             (ScheduleWithEstimate(frame, s, t) /\ t = idx)
                => outcome \in {"ingested", "status_et", "status_gone"}

\* a frame whose status stands before its schedule has been processed: the
\* run, unknown before, is in the cache with the status's time as estimate
C26_Witness ==
    /\ lpc = "done" /\ Len(frame) = 2
    /\ ScheduleWithEstimate(frame, 2, 1)
    /\ Len(trains_cache) = 1
    /\ trains_cache[1].rid = frame[2].rid
    /\ trains_cache[1].eta = StatusAtObservationPoint(frame[1]).et
    /\ outcome = "status_et"

\* C27: the locked section of process_schedules leaves under the run's key
\* exactly the train built from the schedule, with no estimate, not delayed
\* and not actual, whatever entry the key had; the number of entries grows
\* only for a key that was not there.
C27_ScheduleResetsEstimate ==
    [][WriteScheduleStep =>
         /\ HasKey(trains_cache', pending.rid)
         /\ Get(trains_cache', pending.rid) = pending
         /\ Untouched(Get(trains_cache', pending.rid))
         /\ Len(trains_cache') =
               IF HasKey(trains_cache, pending.rid)
               THEN Len(trains_cache) ELSE Len(trains_cache) + 1
      ]_vars

\* the listener is at the write of a schedule whose run is cached with an
\* actual time recorded by a status
C27_Witness ==
    /\ lpc = "sched_write" /\ Settled /\ cache_lock = "free"
    /\ HasKey(trains_cache, pending.rid)
    /\ Get(trains_cache, pending.rid).eta # Absent
    /\ Get(trains_cache, pending.rid).actual
    /\ Untouched(pending)

---------------------------------------------------------------------------
(* Properties of origin and destination *)

\* the train's origin and destination are the codes of the first and of the
\* last location of el
EndToEnd(train, el) ==
    /\ train.origin = el.locs[1].tpl
    /\ train.destination = el.locs[Len(el.locs)].tpl

\* C28 as claimed: every train written by the listener, added by the first
\* loop of the bootstrap or added by inference has the code of its journey's
\* first location as origin and the code of its last location as destination.
C28_OriginFirstDestinationLast ==
    [][/\ WriteScheduleStep => EndToEnd(pending, frame[idx])
       /\ DirectStepTaken =>
             \A i \in 1..Len(Appended(self_trains, self_trains')) :
                EndToEnd(Appended(self_trains, self_trains')[i], journeys[bidx])
       /\ InferStepTaken =>
             \A i \in 1..Len(Appended(passing_trains, passing_trains')) :
                EndToEnd(Appended(passing_trains, passing_trains')[i], journeys[bidx])
      ]_vars

---------------------------------------------------------------------------
(* Properties of the bracket times *)

BeforeOrder == << "ptd", "pta", "wtd", "wta" >>
AfterOrder == << "pta", "ptd", "wta", "wtd" >>

\* the value of the first field of order that loc has, Absent if it has none
FirstPresent(loc, order) ==
    IF \E k \in 1..Len(order) : HasValue(loc[order[k]])
    THEN loc[order[CHOOSE k \in 1..Len(order) :
                       /\ HasValue(loc[order[k]])
                       /\ \A h \in 1..(k - 1) : ~HasValue(loc[order[h]])]]
    ELSE Absent

\* the codes a bracket is looked up under
BracketCodes(code) == IF code = "LIVST" THEN << "LIVST", "LVRPLST" >> ELSE << code >>

HasBracketOf(j, code) ==
    \E k \in 1..Len(BracketCodes(code)) : HasLocation(j, BracketCodes(code)[k])

BracketOf(j, code) ==
    LocationAt(j, BracketCodes(code)[CHOOSE k \in 1..Len(BracketCodes(code)) :
                      /\ HasLocation(j, BracketCodes(code)[k])
                      /\ \A h \in 1..(k - 1) : ~HasLocation(j, BracketCodes(code)[h])])

\* the journey is on a route and does not list the observation point
ReachesBrackets(j) ==
    /\ ClassifyRoute(j.locs).route # "none"
    /\ IsValidRoute(j.locs)
    /\ ~Calls(j)

\* C29: for a journey that gets as far as its brackets, the inference step
\* adds nothing when a bracket location is missing under every code it goes
\* by, or has none of the four times; otherwise it takes the before bracket's
\* first present of ptd, pta, wtd, wta and the after bracket's first present
\* of pta, ptd, wta, wtd, and adds one record at their calibrated midpoint
\* when the journey is of today and that instant is within the window.
C29_BracketTimes ==
    [][(InferStepTaken /\ ReachesBrackets(journeys[bidx])) =>
         LET j == journeys[bidx]
             cls == ClassifyRoute(j.locs)
             new == Appended(passing_trains, passing_trains')
         IN IF ~HasBracketOf(j, cls.before) \/ ~HasBracketOf(j, cls.after)
            THEN new = << >>
            ELSE LET b == FirstPresent(BracketOf(j, cls.before), BeforeOrder)
                     a == FirstPresent(BracketOf(j, cls.after), AfterOrder)
                 IN IF b = Absent \/ a = Absent
                    THEN new = << >>
                    ELSE LET p == Midpoint(TodayAt(b), TodayAt(a))
                                  + CalibrationMinutes(cls.route, InferOrigin(j.locs),
                                                       InferDestination(j.locs)) * TicksPerMinute
                         IN IF start <= p /\ p <= start + CutoffTicks /\ ~OnAnotherDate(j)
                            THEN Len(new) = 1 /\ new[1].parsed_time = isoformat(p)
                            ELSE new = << >>
      ]_vars

\* a journey with pta and wtd at Cheshunt and ptd and wta at Bishops
\* Stortford gave a train at 14:02: the midpoint of 13:52 and 14:18, less 3
C29_Witness ==
    /\ bpc = "done"
    /\ journeys = << BracketedJourney("J1", {"pta", "wtd"}, {"ptd", "wta"}) >>
    /\ ~HasValue(LocationAt(journeys[1], "CHESHNT").ptd)
    /\ HasValue(LocationAt(journeys[1], "CHESHNT").wtd)
    /\ Len(self_trains) = 1
    /\ self_trains[1].time = <<14, 2>>

---------------------------------------------------------------------------
(* Properties of the calibration *)

\* lines 397-452: the direction the two bracket codes were chosen for; the
\* inbound brackets of every route begin at Bishops Stortford
BracketDirection(cls) == IF cls.before = CAMBRIDGE_AFTER THEN "inbound" ELSE "outbound"

\* lines 522-542: the offset of a route in a direction, in minutes
DirectionOffset(route_type, direction) ==
    IF route_type = "Stansted" THEN (IF direction = "outbound" THEN -3 ELSE 5)
    ELSE IF route_type \in {"Cambridge", "Ely"} THEN (IF direction = "inbound" THEN -8 ELSE 9)
    ELSE IF route_type = "Stratford" THEN -8
    ELSE 0

\* C30: a record added by the inference step stands at the midpoint of its
\* two bracket times moved by the offset that its route has in the direction
\* its brackets were chosen for.
C30_OffsetFollowsBrackets ==
    [][(InferStepTaken /\ Appended(passing_trains, passing_trains') # << >>) =>
         LET j == journeys[bidx]
             cls == ClassifyRoute(j.locs)
             new == Appended(passing_trains, passing_trains')
             b == FirstPresent(BracketOf(j, cls.before), BeforeOrder)
             a == FirstPresent(BracketOf(j, cls.after), AfterOrder)
         IN new[1].parsed_time =
                isoformat(Midpoint(TodayAt(b), TodayAt(a))
                          + DirectionOffset(cls.route, BracketDirection(cls)) * TicksPerMinute)
      ]_vars

---------------------------------------------------------------------------
(* Properties of the actual mark *)

\* the step is a locked status update of run rid that carries an actual time
ActualTimeApplied(rid) ==
    /\ WriteStatusStep
    /\ frame[idx].rid = rid
    /\ Truthy(Head(locq).at)

\* C31: an entry marked actual has as its estimate the actual time of the
\* latest status update that carried one: a step either applies an actual
\* time to the entry, which becomes its estimate, or leaves an entry that is
\* marked actual with the estimate it had when it was already marked.
C31_ActualHoldsObservedTime ==
    [][\A i \in 1..Len(trains_cache') :
          LET after == trains_cache'[i]
          IN after.actual =>
                IF ActualTimeApplied(after.rid)
                THEN after.eta = Head(locq).at
                ELSE /\ HasKey(trains_cache, after.rid)
                     /\ Get(trains_cache, after.rid).actual
                     /\ Get(trains_cache, after.rid).eta = after.eta
      ]_vars

---------------------------------------------------------------------------
(* Properties of the entries' instants *)

\* the query neither removes the entry nor returns it
NeverServed(train) ==
    /\ \A k \in 1..Len(to_remove') : to_remove'[k] # train.rid
    /\ \A k \in 1..Len(response'.trains) : response'.trains[k].rid # train.rid

\* C32: every entry of the cache has a resolved instant, and a query that
\* neither removes nor returns an entry leaves it for a later query: its
\* instant is not before that query's grace cut-off.
C32_EveryEntryHasInstant ==
    /\ [](\A i \in 1..Len(trains_cache) : HasInstant(trains_cache[i]))
    /\ [][QueryRunStep =>
             \A i \in 1..Len(trains_cache) :
                NeverServed(trains_cache[i]) =>
                    /\ HasInstant(trains_cache[i])
                    /\ InstantOf(trains_cache[i]) >= qnow - GraceTicks
         ]_vars

---------------------------------------------------------------------------
(* Properties of the status endpoint *)

\* the status endpoint has built its response
StatusResponded == endpoint.pc = "done" /\ endpoint.route = "status"

\* C33: in every response of the status endpoint the total is the sum of the
\* stopping and the passing count.
C33_StatusCountsAddUp ==
    StatusResponded => endpoint.total = endpoint.stopping + endpoint.passing

====
